---- MODULE Spec2Model ----
(***************************************************************************)
(* Try On Quiz (src/app.js): the branching quiz, its scoring and ranking,  *)
(* and the transition guard, as a state machine.  src/app.js holds two     *)
(* variants of the application (lines 1-571 and lines 573-1009); the       *)
(* variable `variant` says which of the two is running.                    *)
(***************************************************************************)
EXTENDS Integers, Sequences, FiniteSets, TLC

\* Answers accepted in one session before the model stops clicking answers.
MaxPicked == 3
\* Results timers pending at the same time before the model stops finishing.
MaxTimers == 2
\* Decimal digits of the integers that are held as integers; a number of
\* more digits is held by its numeral.
MaxDigits == 8

(***************************************************************************)
(* JavaScript values that reach the handlers: strings, null, undefined    *)
(* and numbers.  The numbers are the IEEE 754 doubles: an integer below    *)
(* 10^MaxDigits in magnitude is Num(n) (-0 is 0); any other finite number  *)
(* x is Double(text), text being String(x), the shortest decimal numeral   *)
(* that reads back as x, so that two numbers are equal exactly when their  *)
(* values are equal; then NaN, Infinity and -Infinity.                     *)
(***************************************************************************)
Undefined == [t |-> "undefined", n |-> 0, s |-> ""]
JSNull == [t |-> "null", n |-> 0, s |-> ""]
NaN == [t |-> "nan", n |-> 0, s |-> ""]
Num(n) == [t |-> "number", n |-> n, s |-> ""]
Str(s) == [t |-> "string", n |-> 0, s |-> s]
\* Infinity (sign 1) and -Infinity (sign -1).
Inf(sign) == [t |-> "infinity", n |-> sign, s |-> ""]
\* The finite number with the text String(x); n is its sign.
Double(text) ==
  [t |-> "double", n |-> IF SubSeq(text, 1, 1) = "-" THEN -1 ELSE 1, s |-> text]

\* F(a), with a evaluated once before F is applied to it.
Strict(F(_), a) == CHOOSE r \in {F(x) : x \in {a}} : TRUE

\* An absent object (null) and a present one.
Null == <<>>
Some(x) == <<x>>

DigitStr == <<"0", "1", "2", "3", "4", "5", "6", "7", "8", "9">>

RECURSIVE Digits(_)
Digits(n) == IF n < 10 THEN DigitStr[n + 1]
             ELSE Digits(n \div 10) \o DigitStr[(n % 10) + 1]

\* String(n) for an integer n.
DecimalString(n) == IF n < 0 THEN "-" \o Digits(-n) ELSE Digits(n)

\* String(v), as used for the data-* attributes.
StringOf(v) ==
  CASE v.t = "number" -> DecimalString(v.n)
    [] v.t = "double" -> v.s
    [] v.t = "string" -> v.s
    [] v.t = "null" -> "null"
    [] v.t = "nan" -> "NaN"
    [] v.t = "infinity" -> IF v.n < 0 THEN "-Infinity" ELSE "Infinity"
    [] v.t = "undefined" -> "undefined"

(***************************************************************************)
(* Number(string): StringToNumber of ECMAScript.  White space is trimmed;  *)
(* the empty text is 0; the text is a binary, octal or hexadecimal integer *)
(* (0b, 0o, 0x, no sign), or a decimal literal with an optional sign:      *)
(* Infinity, or digits with an optional fraction and an optional exponent; *)
(* any other text is NaN.  The value of a numeral is the double nearest to *)
(* it, the even one of two that are equally near.                          *)
(***************************************************************************)
CharAt(s, i) == SubSeq(s, i, i)

\* StrWhiteSpaceChar, as far as a TLA+ string can hold it: space, tab, line
\* feed, carriage return, form feed, line tabulation (U+000B), no-break
\* space (U+00A0), Ogham space mark (U+1680) and the byte order mark
\* (U+FEFF).
WhiteSpaceChars == {" ", "\t", "\n", "\r", "\f", "", " ", " ", "﻿"}

DecimalDigitChars == {"0", "1", "2", "3", "4", "5", "6", "7", "8", "9"}

\* The value of a digit of a numeral of the radix (up to 16); -1 for any
\* other character.
DigitValue(c, radix) ==
  IF \E v \in 1..radix : c \in {CharAt("0123456789abcdef", v), CharAt("0123456789ABCDEF", v)}
  THEN (CHOOSE v \in 1..radix :
          c \in {CharAt("0123456789abcdef", v), CharAt("0123456789ABCDEF", v)}) - 1
  ELSE -1

\* The position of the first character at or after i that is not one of the
\* characters; Len(s) + 1 when there is none.
SkipChars(s, i, chars) ==
  IF i > Len(s) THEN i
  ELSE IF \A j \in i..Len(s) : CharAt(s, j) \in chars THEN Len(s) + 1
  ELSE CHOOSE j \in i..Len(s) :
         /\ CharAt(s, j) \notin chars
         /\ \A k \in i..(j - 1) : CharAt(s, k) \in chars

\* The position of the first character at or after i that is no white space.
SkipWhiteSpace(s, i) == SkipChars(s, i, WhiteSpaceChars)

\* The position of the last character at or before i that is no white space;
\* 0 when there is none.
SkipWhiteSpaceBack(s, i) ==
  IF \A j \in 1..i : CharAt(s, j) \in WhiteSpaceChars THEN 0
  ELSE CHOOSE j \in 1..i :
         /\ CharAt(s, j) \notin WhiteSpaceChars
         /\ \A k \in (j + 1)..i : CharAt(s, k) \in WhiteSpaceChars

TrimString(s) ==
  Strict(LAMBDA from :
    IF from > Len(s) THEN "" ELSE SubSeq(s, from, SkipWhiteSpaceBack(s, Len(s))),
    SkipWhiteSpace(s, 1))

\* The position behind the decimal digits that start at i.
SkipDigits(s, i) == SkipChars(s, i, DecimalDigitChars)

\* The text without its leading zeros.
StripLeadingZeros(s0) ==
  Strict(LAMBDA s : SubSeq(s, SkipChars(s, 1, {"0"}), Len(s)), s0)

RECURSIVE Power(_, _)
Power(base, e) == IF e = 0 THEN 1 ELSE base * Power(base, e - 1)

\* The integer that up to 9 digits of the radix denote (up to 6 of the
\* radix 16): d[k] is the digit k places from the end.
DigitsValue(s0, radix) ==
  Strict(LAMBDA s :
    Strict(LAMBDA d :
      d[1] + radix * (d[2] + radix * (d[3] + radix * (d[4] + radix * (d[5]
        + radix * (d[6] + radix * (d[7] + radix * (d[8] + radix * d[9]))))))),
      [k \in 1..9 |-> IF k <= Len(s) THEN DigitValue(CharAt(s, Len(s) + 1 - k), radix)
                      ELSE 0]),
    s0)

\* The integers that are Num(n) are below this in magnitude.
IntegerBound == Power(10, MaxDigits)

(***************************************************************************)
(* The arithmetic of the doubles is exact arithmetic on natural numbers of *)
(* any size, followed by one rounding.  A natural number is the sequence   *)
(* of its digits to the base BigBase, the lowest first and the highest not *)
(* 0; <<>> is 0.                                                           *)
(***************************************************************************)
BigBase == 1000000

Limb(a, i) == IF i <= Len(a) THEN a[i] ELSE 0

\* The digits without the zeros above the highest digit that is not 0.
BigNorm(a0) ==
  Strict(LAMBDA a :
    IF a = <<>> \/ a[Len(a)] # 0 THEN a
    ELSE IF \A i \in 1..Len(a) : a[i] = 0 THEN <<>>
    ELSE SubSeq(a, 1, CHOOSE i \in 1..Len(a) :
                        a[i] # 0 /\ \A j \in (i + 1)..Len(a) : a[j] = 0),
    a0)

\* The natural number n (below BigBase squared).
BigFromInt(n) ==
  IF n = 0 THEN <<>>
  ELSE IF n < BigBase THEN <<n>>
  ELSE <<n % BigBase, n \div BigBase>>

\* The natural number a text of decimal digits denotes.
BigFromDigits(s0) ==
  Strict(LAMBDA s :
    BigNorm([i \in 1..((Len(s) + 5) \div 6) |->
      DigitsValue(SubSeq(s, IF Len(s) - 6 * i + 1 < 1 THEN 1 ELSE Len(s) - 6 * i + 1,
                         Len(s) - 6 * (i - 1)),
                  10)]),
    s0)

\* The number of decimal digits of a.
BigDigitCount(a) ==
  IF a = <<>> THEN 0 ELSE 6 * (Len(a) - 1) + Len(Digits(a[Len(a)]))

\* -1, 0 or 1 as a is less than, equal to or greater than b: of two numbers
\* of the same length, a is the lesser when its digit is the lesser at the
\* highest place where they differ.
BigCompare(a, b) ==
  IF Len(a) # Len(b) THEN (IF Len(a) < Len(b) THEN -1 ELSE 1)
  ELSE IF a = b THEN 0
  ELSE IF \E i \in 1..Len(a) :
            a[i] < b[i] /\ \A k \in (i + 1)..Len(a) : a[k] = b[k]
       THEN -1
  ELSE 1

\* a + b, for sequences of digits whose highest may be 0.  A digit receives
\* a carry when the nearest digit below it that is not BigBase - 1
\* overflows.
BigAdd(a, b) ==
  Strict(LAMBDA sum :
    BigNorm([i \in 1..(Len(sum) + 1) |->
      (Limb(sum, i)
         + (IF i > 1 /\ (\/ sum[i - 1] >= BigBase
                         \/ /\ sum[i - 1] = BigBase - 1
                            /\ \E d \in 2..(i - 1) :
                                 /\ sum[i - d] >= BigBase
                                 /\ \A k \in 1..(d - 1) : sum[i - k] = BigBase - 1)
            THEN 1 ELSE 0)) % BigBase]),
    [i \in 1..(IF Len(a) < Len(b) THEN Len(b) ELSE Len(a)) |-> Limb(a, i) + Limb(b, i)])

\* a - b, for a >= b.  A digit lends when the nearest digits below it that
\* differ are less in a than in b.
BigSub(a, b0) ==
  Strict(LAMBDA b :
    BigNorm([i \in 1..Len(a) |->
      (a[i] - b[i] + BigBase
         - (IF i > 1 /\ (\/ a[i - 1] < b[i - 1]
                         \/ /\ a[i - 1] = b[i - 1]
                            /\ \E d \in 2..(i - 1) :
                                 /\ a[i - d] < b[i - d]
                                 /\ \A k \in 1..(d - 1) : a[i - k] = b[i - k])
            THEN 1 ELSE 0)) % BigBase]),
    [i \in 1..Len(a) |-> Limb(b0, i)])

\* a * c, for c up to 2^11: the lower parts of the products of the digits,
\* plus their upper parts one digit higher.
BigMulSmall(a, c) ==
  BigAdd([i \in 1..Len(a) |-> (a[i] * c) % BigBase],
         [i \in 1..(Len(a) + 1) |-> IF i = 1 THEN 0 ELSE (a[i - 1] * c) \div BigBase])

\* a * 2^k.
RECURSIVE BigMulPow2(_, _)
BigMulPow2(a, k) ==
  IF k <= 11 THEN BigMulSmall(a, Power(2, k))
  ELSE Strict(LAMBDA half : BigMulPow2(half, k - k \div 2), BigMulPow2(a, k \div 2))

\* a * 10^k.
BigMulPow10(a, k) ==
  LET high == Power(10, k % 6)
      low == Power(10, 6 - (k % 6))
      shifted == IF k % 6 = 0 THEN a
                 ELSE BigNorm([i \in 1..(Len(a) + 1) |->
                        ((Limb(a, i) % low) * high)
                          + (IF i > 1 THEN a[i - 1] \div low ELSE 0)])
  IN IF a = <<>> THEN <<>> ELSE [i \in 1..(k \div 6) |-> 0] \o shifted

\* The natural number the digits lo..hi of a text denote, the radix being 2
\* to the bits.
RECURSIVE BigFromRadix(_, _, _, _, _)
BigFromRadix(s, lo, hi, radix, bits) ==
  IF hi - lo < 6 THEN BigFromInt(DigitsValue(SubSeq(s, lo, hi), radix))
  ELSE Strict(LAMBDA upper :
         Strict(LAMBDA lower :
           BigAdd(BigMulPow2(upper, bits * (hi - (lo + hi) \div 2)), lower),
           BigFromRadix(s, (lo + hi) \div 2 + 1, hi, radix, bits)),
         BigFromRadix(s, lo, (lo + hi) \div 2, radix, bits))

\* s, 2s, ..., 9s.
Multiples(s) == [j \in 1..9 |-> BigMulSmall(s, j)]

\* r divided by s without the remainder, for r < 10 s.
DigitOf(r, multiples) ==
  Cardinality({j \in 1..9 : BigCompare(multiples[j], r) <= 0})

\* count more decimal digits of a quotient by s, multiples being those of
\* s: state.digits are the digits so far and state.r what is left of the
\* dividend, times 10 for every digit so far and less than 10 s.
RECURSIVE QuotientDigits(_, _, _)
QuotientDigits(state, multiples, count) ==
  IF count = 1
  THEN Strict(LAMBDA d :
         [digits |-> state.digits \o DigitStr[d + 1],
          r |-> BigMulPow10(BigSub(state.r, IF d = 0 THEN <<>> ELSE multiples[d]), 1)],
         DigitOf(state.r, multiples))
  ELSE Strict(LAMBDA half : QuotientDigits(half, multiples, count - count \div 2),
              QuotientDigits(state, multiples, count \div 2))

\* A double is m * 2^e with m < 2^53 and MinExponent <= e <= MaxExponent,
\* m >= 2^52 unless e is MinExponent.  2^52 is 4503599627370496 and 2^53
\* is 9007199254740992.
Pow2_52 == <<370496, 599627, 4503>>
Pow2_53 == <<740992, 199254, 9007>>
MinExponent == -1074
MaxExponent == 971

\* n divided by m * 2^e: the quotient q (below 10^20), and the divisor and
\* the remainder times 10^20, numerator and denominator being scaled to
\* natural numbers.
ScaledQuotient(n, m, e) ==
  Strict(LAMBDA divisor :
    Strict(LAMBDA multiples :
      Strict(LAMBDA r :
        [q |-> BigFromDigits(r.digits), rem |-> r.r,
         divisor |-> BigMulPow10(divisor, 1)],
        QuotientDigits([digits |-> "", r |-> BigMulPow2(n, IF e >= 0 THEN 0 ELSE -e)],
                       multiples, 20)),
      Multiples(divisor)),
    BigMulPow10(BigMulPow2(m, IF e >= 0 THEN e ELSE 0), 19))

\* The double nearest to n / m, e being an exponent of 2 that is at most
\* that of the quotient and at most 12 below it (or MinExponent): the
\* quotient by 2^e is rounded to the nearest natural number, the even one of
\* two that are equally near, once it is below 2^53.
RECURSIVE RoundAt(_, _, _)
RoundAt(n, m, e) ==
  Strict(LAMBDA quotient :
    Strict(LAMBDA up :
      IF up > 0 THEN RoundAt(n, m, e + up)
      ELSE Strict(LAMBDA half :
             Strict(LAMBDA rounded :
               IF rounded = <<>> THEN [kind |-> "zero", m |-> <<>>, e |-> 0]
               ELSE IF e + (IF rounded = Pow2_53 THEN 1 ELSE 0) > MaxExponent
                    THEN [kind |-> "infinity", m |-> <<>>, e |-> 0]
               ELSE IF rounded = Pow2_53
                    THEN [kind |-> "finite", m |-> Pow2_52, e |-> e + 1]
               ELSE [kind |-> "finite", m |-> rounded, e |-> e],
               BigAdd(quotient.q,
                      IF half > 0 \/ (half = 0 /\ Limb(quotient.q, 1) % 2 = 1)
                      THEN <<1>> ELSE <<>>)),
             BigCompare(BigMulSmall(quotient.rem, 2), quotient.divisor)),
      Cardinality({j \in 0..11 : BigCompare(quotient.q, BigMulPow2(Pow2_53, j)) >= 0})),
    ScaledQuotient(n, m, e))

\* The double nearest to n / m (n, m natural, m not 0), the even one of two
\* that are equally near: kind "zero", "infinity", or "finite" with m and e.
\* The rounding starts at an exponent of 2 found from the numbers of decimal
\* digits t.
RoundToDouble(n, m) ==
  IF n = <<>> THEN [kind |-> "zero", m |-> <<>>, e |-> 0]
  ELSE Strict(LAMBDA t :
         LET below == (IF t >= 0 THEN (t * 3321) \div 1000
                       ELSE -((-t * 3322 + 999) \div 1000)) - 52
         IN RoundAt(n, m, IF below < MinExponent THEN MinExponent ELSE below),
         BigDigitCount(n) - BigDigitCount(m) - 1)

(***************************************************************************)
(* Number::toString: the digits of the shortest decimal numeral that reads *)
(* back as the double (the nearest of them; of two equally near the even   *)
(* one), and the text ECMAScript writes them as.                           *)
(***************************************************************************)

\* The digits a numeral of the double needs to read back as it, in at most
\* count more steps: state.digits are the digits so far, state.r / s is what
\* is left of the value behind them, and state.mPlus / s and state.mMinus / s
\* are the distances to the middle of the next and of the previous double,
\* all times 10 for every digit so far; s is multiples[1].  The digits are
\* complete (state.done) when what is left is within these distances: d is
\* the next digit, rem what is left behind it, and at says how rem compares
\* with the two distances and with a half.
RECURSIVE GenerateDigits(_, _, _, _)
GenerateDigits(state, multiples, even, count) ==
  IF count = 1
  THEN IF state.done THEN state
       ELSE Strict(LAMBDA d :
              Strict(LAMBDA rem :
                Strict(LAMBDA at :
                  LET low == IF even THEN at[1] <= 0 ELSE at[1] < 0
                      high == IF even THEN at[2] >= 0 ELSE at[2] > 0
                      last == IF low /\ ~high THEN d
                              ELSE IF high /\ ~low THEN d + 1
                              ELSE IF at[3] < 0 \/ (at[3] = 0 /\ d % 2 = 0) THEN d
                              ELSE d + 1
                  IN IF ~low /\ ~high
                     THEN Strict(LAMBDA next :
                            [digits |-> state.digits \o DigitStr[d + 1],
                             r |-> next[1], mPlus |-> next[2], mMinus |-> next[3],
                             done |-> FALSE],
                            [i \in 1..3 |->
                              BigMulPow10(<<rem, state.mPlus, state.mMinus>>[i], 1)])
                     ELSE [state EXCEPT !.digits = @ \o DigitStr[last + 1],
                                        !.done = TRUE],
                  <<BigCompare(rem, state.mMinus),
                    BigCompare(BigAdd(rem, state.mPlus), multiples[1]),
                    BigCompare(BigMulSmall(rem, 2), multiples[1])>>),
                BigSub(state.r, IF d = 0 THEN <<>> ELSE multiples[d])),
              DigitOf(state.r, multiples))
  ELSE Strict(LAMBDA half : GenerateDigits(half, multiples, even, count - count \div 2),
              GenerateDigits(state, multiples, even, count \div 2))

\* The digits string and the exponent n of the double m * 2^e, its value
\* being 0.digits * 10^n.  The value is r / s and the distances to the
\* middle of the previous and of the next double are mMinus / s and
\* mPlus / s: start is <<r, s, mMinus, mPlus>>.  n is the least k with
\* (r + mPlus) / s within 10^k, one of guess - 1 .. guess + 2: at[k] are
\* the two sides of the comparison as natural numbers.
ShortestDigits(m, e) ==
  LET even == m[1] % 2 = 0
      extra == IF m = Pow2_52 /\ e > MinExponent THEN 2 ELSE 1
      up == IF e >= 0 THEN e ELSE 0
  IN Strict(LAMBDA start :
       Strict(LAMBDA top :
         Strict(LAMBDA guess :
           Strict(LAMBDA n :
             Strict(LAMBDA scaled :
               Strict(LAMBDA multiples :
                 [digits |-> GenerateDigits([digits |-> "", r |-> scaled[1],
                                             mPlus |-> scaled[3], mMinus |-> scaled[2],
                                             done |-> FALSE],
                                            multiples, even, 17).digits,
                  n |-> n],
                 Multiples(BigMulPow10(start[2], IF n >= 0 THEN n ELSE 0))),
               [i \in 1..3 |->
                 BigMulPow10(start[IF i = 1 THEN 1 ELSE i + 1], IF n < 0 THEN 1 - n ELSE 1)]),
             Strict(LAMBDA at :
               guess - 1 + Cardinality({k \in DOMAIN at :
                 BigCompare(at[k][1], at[k][2]) >= (IF even THEN 0 ELSE 1)}),
               [k \in (guess - 1)..(guess + 1) |->
                 <<BigMulPow10(top, IF k < 0 THEN -k ELSE 0),
                   BigMulPow10(start[2], IF k > 0 THEN k ELSE 0)>>])),
           BigDigitCount(top) - BigDigitCount(start[2])),
         BigAdd(start[1], start[4])),
       [i \in 1..4 |->
         BigMulPow2(IF i = 1 THEN m ELSE <<1>>,
                    <<up + extra, extra + up - e, up, up + extra - 1>>[i])])

\* Number::toString of the number 0.digits * 10^n with the sign.
FormatNumber(sign, digits, n) ==
  LET k == Len(digits)
      zeros == "000000000000000000000"
      exponent == (IF n - 1 < 0 THEN "-" ELSE "+")
                    \o Digits(IF n - 1 < 0 THEN 1 - n ELSE n - 1)
  IN (IF sign < 0 THEN "-" ELSE "")
       \o (IF k <= n /\ n <= 21 THEN digits \o SubSeq(zeros, 1, n - k)
           ELSE IF 0 < n /\ n <= 21
                THEN SubSeq(digits, 1, n) \o "." \o SubSeq(digits, n + 1, k)
           ELSE IF -6 < n /\ n <= 0 THEN "0." \o SubSeq(zeros, 1, -n) \o digits
           ELSE IF k = 1 THEN digits \o "e" \o exponent
           ELSE SubSeq(digits, 1, 1) \o "." \o SubSeq(digits, 2, k) \o "e" \o exponent)

\* The number a rounding gave, with the sign: one whose numeral is an
\* integer of at most MaxDigits digits is Num(n).
NumberFromBinary(sign, r) ==
  IF r.kind = "zero" THEN Num(0)
  ELSE IF r.kind = "infinity" THEN Inf(sign)
  ELSE Strict(LAMBDA shortest :
         IF Len(shortest.digits) <= shortest.n /\ shortest.n <= MaxDigits
         THEN Num(sign * DigitsValue(shortest.digits, 10)
                    * Power(10, shortest.n - Len(shortest.digits)))
         ELSE Double(FormatNumber(sign, shortest.digits, shortest.n)),
         ShortestDigits(r.m, r.e))

\* The digits of a numeral that decide its double: a digit is the last that
\* matters when SignificantDigits digits are before it.
SignificantDigits == 800

\* What a numeral denotes, before any rounding: a number as it stands
\* (kind "exact"), or the sign times n / d (kind "ratio"), or a ratio known
\* to be beyond the greatest double ("infinity") or below the least
\* ("zero").
Exact(v) == [kind |-> "exact", value |-> v, sign |-> 1, n |-> <<>>, d |-> <<1>>]
Ratio(kind, sign, n, d) == [kind |-> kind, value |-> NaN, sign |-> sign, n |-> n, d |-> d]

\* The double nearest to a ratio: kind "zero", "infinity", or "finite" with
\* m and e.
RoundRatio(q) ==
  IF q.kind = "ratio" THEN RoundToDouble(q.n, q.d)
  ELSE [kind |-> q.kind, m |-> <<>>, e |-> 0]

\* The decimal digits m (no leading zero, not empty) times 10 to the
\* exponent (the digits e, no leading zero, with the sign) behind
\* fractionLength of the digits.  An exponent of more than MaxDigits digits
\* decides alone, as does a numeral beyond the greatest or below the least
\* double by its number of digits.
DecimalRatio(sign, m, exponentSign, e, fractionLength) ==
  IF Len(e) > MaxDigits
  THEN Ratio(IF exponentSign > 0 THEN "infinity" ELSE "zero", sign, <<>>, <<1>>)
  ELSE Strict(LAMBDA kept :
         Strict(LAMBDA shift :
           IF Len(kept) + shift > 310 THEN Ratio("infinity", sign, <<>>, <<1>>)
           ELSE IF Len(kept) + shift < -330 THEN Ratio("zero", sign, <<>>, <<1>>)
           ELSE Ratio("ratio", sign,
                      BigMulPow10(BigFromDigits(kept), IF shift > 0 THEN shift ELSE 0),
                      BigMulPow10(<<1>>, IF shift < 0 THEN -shift ELSE 0)),
           exponentSign * DigitsValue(e, 10) - fractionLength + (Len(m) - Len(kept))),
         IF Len(m) <= SignificantDigits THEN m
         ELSE SubSeq(m, 1, SignificantDigits)
                \o (IF SkipChars(m, SignificantDigits + 1, {"0"}) > Len(m)
                    THEN "0" ELSE "1"))

\* StrUnsignedDecimalLiteral without Infinity: the digits before and behind
\* the point, the exponent, and whether u is such a literal.  intEnd,
\* fracEnd and expEnd are the positions behind the integer digits, the
\* fraction and the exponent.
DecimalLiteral(u0) ==
  Strict(LAMBDA u :
    Strict(LAMBDA intEnd :
      LET hasPoint == intEnd <= Len(u) /\ CharAt(u, intEnd) = "."
          fracStart == IF hasPoint THEN intEnd + 1 ELSE intEnd
      IN Strict(LAMBDA fracEnd :
        LET intDigits == SubSeq(u, 1, intEnd - 1)
            fracDigits == SubSeq(u, fracStart, fracEnd - 1)
            hasExp == fracEnd <= Len(u) /\ CharAt(u, fracEnd) \in {"e", "E"}
            hasExpSign == hasExp /\ fracEnd + 1 <= Len(u)
                            /\ CharAt(u, fracEnd + 1) \in {"+", "-"}
            expSign == IF hasExpSign /\ CharAt(u, fracEnd + 1) = "-" THEN -1 ELSE 1
            expStart == IF hasExpSign THEN fracEnd + 2 ELSE fracEnd + 1
        IN Strict(LAMBDA expEnd :
          LET expDigits == IF hasExp THEN SubSeq(u, expStart, expEnd - 1) ELSE ""
          IN [valid |-> /\ ~(intDigits = "" /\ fracDigits = "")
                        /\ ~(hasExp /\ expDigits = "")
                        /\ expEnd > Len(u),
              mantissa |-> intDigits \o fracDigits,
              exponentSign |-> expSign,
              exponentDigits |-> expDigits,
              fractionLength |-> Len(fracDigits)],
          IF hasExp THEN SkipDigits(u, expStart) ELSE fracEnd),
        IF hasPoint THEN SkipDigits(u, fracStart) ELSE intEnd),
      SkipDigits(u, 1)),
    u0)

\* 0b..., 0o... and 0x... without the prefix: digits of the radix, at least
\* one.  The value of up to 6 digits is an integer as it stands; a numeral
\* of more than 1100 bits is beyond the greatest double.
NonDecimalValue(digits0, radix) ==
  Strict(LAMBDA digits :
    IF digits = "" \/ \E i \in 1..Len(digits) : DigitValue(CharAt(digits, i), radix) < 0
    THEN Exact(NaN)
    ELSE Strict(LAMBDA significant :
           LET bits == CASE radix = 16 -> 4 [] radix = 8 -> 3 [] OTHER -> 1
           IN IF Len(significant) <= 6 THEN Exact(Num(DigitsValue(significant, radix)))
              ELSE IF Len(significant) * bits > 1100 THEN Exact(Inf(1))
              ELSE Ratio("ratio", 1,
                         BigFromRadix(significant, 1, Len(significant), radix, bits),
                         <<1>>),
           StripLeadingZeros(digits)),
    digits0)

\* The decimal digits mantissa, times 10 to the exponent, with the sign.
DecimalValue(sign, mantissa, exponentSign, exponentDigits, fractionLength) ==
  Strict(LAMBDA m :
    Strict(LAMBDA e :
      IF m = "" THEN Exact(Num(0))
      ELSE IF Len(e) <= MaxDigits /\ fractionLength = 0
                /\ (e = "" \/ exponentSign > 0)
                /\ Len(m) + DigitsValue(e, 10) <= MaxDigits
           THEN Exact(Num(sign * DigitsValue(m, 10) * Power(10, DigitsValue(e, 10))))
      ELSE DecimalRatio(sign, m, exponentSign, e, fractionLength),
      StripLeadingZeros(exponentDigits)),
    StripLeadingZeros(mantissa))

\* StrUnsignedDecimalLiteral: u is the text behind the sign.
UnsignedDecimal(sign, u) ==
  IF u = "Infinity" THEN Exact(Inf(sign))
  ELSE Strict(LAMBDA literal :
         IF ~literal.valid THEN Exact(NaN)
         ELSE DecimalValue(sign, literal.mantissa, literal.exponentSign,
                           literal.exponentDigits, literal.fractionLength),
         DecimalLiteral(u))

\* StrNumericLiteral: what the trimmed text t (not empty) denotes.
NumericLiteral(t) ==
  LET prefix == IF Len(t) >= 2 THEN SubSeq(t, 1, 2) ELSE ""
      radix == CASE prefix \in {"0x", "0X"} -> 16
                 [] prefix \in {"0o", "0O"} -> 8
                 [] prefix \in {"0b", "0B"} -> 2
                 [] OTHER -> 10
  IN IF radix # 10 THEN NonDecimalValue(SubSeq(t, 3, Len(t)), radix)
     ELSE UnsignedDecimal(IF CharAt(t, 1) = "-" THEN -1 ELSE 1,
                          SubSeq(t, IF CharAt(t, 1) \in {"+", "-"} THEN 2 ELSE 1, Len(t)))

StringToNumber(s) ==
  Strict(LAMBDA t :
    IF t = "" THEN Num(0)
    ELSE Strict(LAMBDA literal :
           IF literal.kind = "exact" THEN literal.value
           ELSE NumberFromBinary(literal.sign, RoundRatio(literal)),
           NumericLiteral(t)),
    TrimString(s))

\* Number(v): null is 0, undefined is NaN, a string is read by StringToNumber.
NumberOf(v) ==
  CASE v.t = "string" -> StringToNumber(v.s)
    [] v.t = "null" -> Num(0)
    [] v.t = "undefined" -> NaN
    [] OTHER -> v

\* The finite number x as sign * m * 2^e.
BinaryOf(x) ==
  IF x.t = "number"
  THEN [sign |-> IF x.n < 0 THEN -1 ELSE 1,
        m |-> BigFromInt(IF x.n < 0 THEN -x.n ELSE x.n), e |-> 0]
  ELSE Strict(LAMBDA literal :
         Strict(LAMBDA r : [sign |-> x.n, m |-> r.m, e |-> r.e],
                RoundRatio(DecimalRatio(x.n, StripLeadingZeros(literal.mantissa),
                                        literal.exponentSign,
                                        StripLeadingZeros(literal.exponentDigits),
                                        literal.fractionLength))),
         DecimalLiteral(IF x.n < 0 THEN SubSeq(x.s, 2, Len(x.s)) ELSE x.s))

\* x + y for two finite numbers: the exact sum, rounded to the nearest
\* double.  parts are x and y as sign * m * 2^e, and aligned are their m at
\* the lesser e of the two.
FiniteSum(x, y) ==
  Strict(LAMBDA parts :
    LET e == IF parts[1].e < parts[2].e THEN parts[1].e ELSE parts[2].e
    IN Strict(LAMBDA aligned :
         Strict(LAMBDA order :
           LET same == parts[1].sign = parts[2].sign
               greater == IF order > 0 THEN 1 ELSE 2
           IN NumberFromBinary(
                IF same THEN parts[1].sign ELSE parts[greater].sign,
                RoundToDouble(
                  BigMulPow2(IF same THEN BigAdd(aligned[1], aligned[2])
                             ELSE BigSub(aligned[greater], aligned[3 - greater]),
                             IF e >= 0 THEN e ELSE 0),
                  BigMulPow2(<<1>>, IF e >= 0 THEN 0 ELSE -e))),
           BigCompare(aligned[1], aligned[2])),
         [i \in 1..2 |-> BigMulPow2(parts[i].m, parts[i].e - e)]),
    [i \in 1..2 |-> BinaryOf(IF i = 1 THEN x ELSE y)])

\* x + y for two numbers.
NumAdd(x0, y0) ==
  Strict(LAMBDA x :
    Strict(LAMBDA y :
      CASE x.t = "nan" \/ y.t = "nan" -> NaN
        [] x.t = "infinity" /\ y.t = "infinity" -> IF x.n = y.n THEN x ELSE NaN
        [] x.t = "infinity" -> x
        [] y.t = "infinity" -> y
        [] x.t = "number" /\ y.t = "number"
             /\ x.n + y.n < IntegerBound /\ -(x.n + y.n) < IntegerBound
             -> Num(x.n + y.n)
        [] OTHER -> FiniteSum(x, y),
      y0),
    x0)

\* -x for a number.
NumNegate(x) ==
  IF x.t \in {"number", "infinity"} THEN [x EXCEPT !.n = -@]
  ELSE IF x.t = "double"
       THEN Double(IF x.n < 0 THEN SubSeq(x.s, 2, Len(x.s)) ELSE "-" \o x.s)
  ELSE x

\* x - y for two numbers.
NumSubtract(x, y) == NumAdd(x, NumNegate(y))

\* x !== y for two numbers: NaN differs from itself.
NumStrictNotEqual(x, y) == x.t = "nan" \/ y.t = "nan" \/ x # y

\* JavaScript falsiness (used by `inc || 0`).
Falsy(v) ==
  \/ v.t \in {"undefined", "null", "nan"}
  \/ v.t = "number" /\ v.n = 0
  \/ v.t = "string" /\ v.s = ""

\* An indexing that clamps the index into the array.
ArrayGetClamped(arr, idx) ==
  IF arr = <<>> THEN <<>>
  ELSE IF idx.t = "number" /\ idx.n >= 0 /\ idx.n < Len(arr) THEN <<arr[idx.n + 1]>>
  ELSE IF idx.t = "number" /\ idx.n >= Len(arr) THEN <<arr[Len(arr)]>>
  ELSE <<arr[1]>>

\* arr[idx] for a Number idx: an element for an integer index in range,
\* undefined (Null) otherwise.
ArrayGet(arr, idx) ==
  IF idx.t = "number" /\ idx.n >= 0 /\ idx.n < Len(arr)
  THEN Some(arr[idx.n + 1])
  ELSE Null

\* A slice that includes position end.
SliceInclusive(arr, start, end) ==
  LET hi == IF end + 1 < Len(arr) THEN end + 1 ELSE Len(arr)
  IN IF start >= hi THEN <<>> ELSE [i \in 1..(hi - start) |-> arr[start + i]]

\* arr.slice(start, end) for 0 <= start <= end.
Slice(arr, start, end) ==
  LET hi == IF end < Len(arr) THEN end ELSE Len(arr)
  IN IF start >= hi THEN <<>> ELSE [i \in 1..(hi - start) |-> arr[start + i]]

(***************************************************************************)
(* The documents data.json may hold.                                       *)
(***************************************************************************)
Shoe(id, name) == [id |-> id, name |-> name]
ShoeA == Shoe("a", "Alpha")
ShoeB == Shoe("b", "Beta")
ShoeC == Shoe("c", "Gamma")
ShoeD == Shoe("d", "Delta")

Inc(k, v) == [k |-> k, v |-> v]
\* An answer; ratingIncrease is Null when the key is absent, else Some(entries).
Answer(copy, ri, next) == [copy |-> copy, ratingIncrease |-> ri, nextQuestion |-> next]
Question(id, copy, answers) == [id |-> id, copy |-> copy, answers |-> answers]
\* missing: the keys the document does not have; their fields are unused.
DocumentWithout(missing, shoes, questions) ==
  [shoes |-> shoes, questions |-> questions, missing |-> missing]
Document(shoes, questions) == DocumentWithout({}, shoes, questions)

\* The end-to-end scenario of the specification: two items, two questions.
DocTwo ==
  Document(<<ShoeA, ShoeB>>,
    << Question(Num(0), "Q0",
         << Answer("a0", Some(<<Inc("a", Num(2))>>), Num(1)),
            Answer("a1", Some(<<Inc("b", Num(2))>>), Num(1)) >>),
       Question(Num(1), "Q1",
         << Answer("a0", Some(<<Inc("a", Num(5))>>), JSNull) >>) >>)

\* Four items; all three terminal markers, the integer 0 as a next question,
\* a negative delta, an out-of-catalog key, a null delta, a dangling reference.
DocFour ==
  Document(<<ShoeA, ShoeB, ShoeC, ShoeD>>,
    << Question(Num(0), "Q0",
         << Answer("a0", Some(<<Inc("a", Num(3)), Inc("b", Num(1))>>), Num(1)),
            Answer("a1", Some(<<Inc("a", Num(5)), Inc("b", Num(5)), Inc("c", Num(9))>>), JSNull),
            Answer("a2", Null, Undefined),
            Answer("a3", Some(<<Inc("c", Num(2)), Inc("zz", Num(1))>>), Num(2)) >>),
       Question(Num(1), "Q1",
         << Answer("a0", Some(<<Inc("a", Num(3)), Inc("b", Num(1))>>), Num(0)),
            Answer("a1", Some(<<Inc("b", Num(-2)), Inc("d", JSNull)>>), Str("")),
            Answer("a2", Some(<<Inc("d", Num(1))>>), Num(7)) >>),
       Question(Num(2), "Q2",
         << Answer("a0", Some(<<Inc("d", Num(2)), Inc("b", Num(4))>>), JSNull) >>) >>)

\* Three items, one question; the tie a = b is below c.
DocThree ==
  Document(<<ShoeA, ShoeB, ShoeC>>,
    << Question(Num(0), "Q0",
         << Answer("a0", Some(<<Inc("c", Num(1))>>), Str("")),
            Answer("a1", Some(<<Inc("b", Num(-1))>>), Undefined) >>) >>)

\* One item.
DocOne ==
  Document(<<ShoeA>>,
    << Question(Num(0), "Q0",
         << Answer("a0", Some(<<Inc("a", Num(1))>>), Str("")) >>) >>)

\* An empty catalog.
DocNone ==
  Document(<<>>,
    << Question(Num(0), "Q0",
         << Answer("a0", Some(<<Inc("zz", Num(1))>>), JSNull) >>) >>)

Documents == {DocTwo, DocFour, DocThree, DocOne, DocNone}

\* Malformed documents: no key shoes, no key questions, a question without id.
DocNoShoes ==
  DocumentWithout({"shoes"}, <<>>,
    << Question(Num(0), "Q0",
         << Answer("a0", Some(<<Inc("a", Num(1))>>), JSNull) >>) >>)

DocNoQuestions == DocumentWithout({"questions"}, <<ShoeA, ShoeB>>, <<>>)

DocNoId ==
  Document(<<ShoeA>>,
    << Question(Undefined, "Q?",
         << Answer("a0", Some(<<Inc("a", Num(1))>>), JSNull) >>),
       Question(Num(0), "Q0",
         << Answer("a0", Some(<<Inc("a", Num(2))>>), Str("")) >>) >>)

MalformedDocuments == {DocNoShoes, DocNoQuestions, DocNoId}

\* Two questions share the id 0; the later one leads on to question 1.
DocDup ==
  Document(<<ShoeA, ShoeB>>,
    << Question(Num(0), "Q0 first",
         << Answer("a0", Some(<<Inc("a", Num(1))>>), JSNull) >>),
       Question(Num(1), "Q1",
         << Answer("a0", Some(<<Inc("b", Num(1))>>), JSNull) >>),
       Question(Num(0), "Q0 second",
         << Answer("a0", Some(<<Inc("b", Num(2))>>), Num(1)),
            Answer("a1", Null, Str("")) >>) >>)

\* No question has the id 0.
DocNoZero ==
  Document(<<ShoeA, ShoeB>>,
    << Question(Num(1), "Q1",
         << Answer("a0", Some(<<Inc("a", Num(1))>>), Num(2)) >>),
       Question(Num(2), "Q2",
         << Answer("a0", Some(<<Inc("b", Num(1))>>), JSNull) >>) >>)

LoadDocuments == MalformedDocuments \cup {DocDup, DocNoZero, DocOne}

Screens == {"start", "quiz", "loading", "results"}


(***************************************************************************)
(* Program state.  DATA, questionsById, state and isTransitioning are the  *)
(* module-level variables of app.js; the rest is the part of the page the  *)
(* handlers read and write, the listeners and timers they register, and    *)
(* a record of what the run did.                                           *)
(***************************************************************************)
VARIABLES
  variant,          \* 1: app.js lines 1-571, 2: app.js lines 573-1009
  doc,              \* the document data.json holds
  initPc,           \* where init() is: "fetch", "json" (at an await) or "done"
  DATA,             \* Null or Some(document)
  questionsById,    \* Null or Some(map from question id to question)
  state,            \* Null or Some([screen, currentQuestionId, ratings])
  isTransitioning,  \* the transition guard
  quizContentEl,    \* getElementById("quiz-content") found the element
  summaryEl,        \* getElementById("results-summary") found the element
  visible,          \* screens without the class is-hidden
  bodyIsResults,    \* <body> has the class is-results
  stageIsOut,       \* #stage has the class is-out
  quizIsFading,     \* #quiz-content has the class is-fading
  stageAnim,        \* an opacity transition of #stage is running
  quizAnim,         \* an opacity transition of #quiz-content is running
  stageListeners,   \* transitionend listeners of #stage, in registration order
  quizListeners,    \* transitionend listeners of #quiz-content
  timers,           \* pending 900 ms timers, in the order they were set
  questionText,     \* #question-text
  answers,          \* the answer buttons in #answers: [qid, aindex] attributes
  summary,          \* #results-summary: the names it mentions
  recommendedSlot,  \* tiles in #recommended-slot
  similarGrid,      \* tiles in #similar-grid
  alerts,           \* an alert() has been shown
  picked,           \* answers scored since state was last replaced
  last              \* the event handled last and what it did

vars == << variant, doc, initPc, DATA, questionsById, state, isTransitioning,
           quizContentEl, summaryEl, visible, bodyIsResults, stageIsOut, quizIsFading, stageAnim, quizAnim,
           stageListeners, quizListeners, timers, questionText, answers, summary,
           recommendedSlot, similarGrid, alerts, picked, last >>

\* The mutable program state as one record, so that a handler is a
\* composition of steps.  threw: an exception is propagating; ran: the update
\* functions run by this event; accepted: an answer was scored by this event.
World ==
  [ variant |-> variant, DATA |-> DATA, questionsById |-> questionsById,
    state |-> state, isTransitioning |-> isTransitioning,
    quizContentEl |-> quizContentEl, summaryEl |-> summaryEl, visible |-> visible,
    bodyIsResults |-> bodyIsResults, stageIsOut |-> stageIsOut,
    quizIsFading |-> quizIsFading, stageAnim |-> stageAnim, quizAnim |-> quizAnim,
    stageListeners |-> stageListeners, quizListeners |-> quizListeners,
    timers |-> timers, questionText |-> questionText, answers |-> answers,
    summary |-> summary, recommendedSlot |-> recommendedSlot,
    similarGrid |-> similarGrid, alerts |-> alerts, picked |-> picked,
    threw |-> FALSE, uncaught |-> FALSE, ran |-> {}, accepted |-> FALSE ]

Throw(w0) ==
  Strict(LAMBDA w :
    [w EXCEPT !.threw = TRUE],
    w0)

\* map.set(k, v) and obj[k] = v
Put(f0, k, v) ==
  Strict(LAMBDA f :
    [x \in (DOMAIN f) \cup {k} |-> IF x = k THEN v ELSE f[x]],
    f0)

\* map.get(k) ?? 0, for a map of integers
GetOrZero(f, k) == IF k \in DOMAIN f THEN f[k] ELSE 0

\* ratings[k] ?? 0: the entries of ratings are numbers.
RatingOrZero(ratings, k) == IF k \in DOMAIN ratings THEN ratings[k] ELSE Num(0)

\* A map construction that keeps the first question of an id.
RECURSIVE BuildFromFirstWins(_, _, _)
BuildFromFirstWins(map0, questions, i) ==
  Strict(LAMBDA map :
    IF i > Len(questions) THEN map
    ELSE BuildFromFirstWins(
           IF questions[i].id \in DOMAIN map THEN map
           ELSE Put(map, questions[i].id, questions[i]),
           questions, i + 1),
    map0)

\* for (const q of questions) map.set(q.id, q)
RECURSIVE BuildFrom(_, _, _)
BuildFrom(map0, questions, i) ==
  Strict(LAMBDA map :
    IF i > Len(questions) THEN map
    ELSE BuildFrom(Put(map, questions[i].id, questions[i]), questions, i + 1),
    map0)

buildQuestionsMap(questions) == BuildFrom(<<>>, questions, 1)

RECURSIVE RatingsFrom(_, _, _)
RatingsFrom(ratings0, shoes, i) ==
  Strict(LAMBDA ratings :
    IF i > Len(shoes) THEN ratings
    ELSE RatingsFrom(Put(ratings, shoes[i].id, Num(0)), shoes, i + 1),
    ratings0)

\* A loop that starts at the second shoe.
createInitialRatingsOffByOne(shoes) == RatingsFrom(<<>>, shoes, 2)

createInitialRatings(shoes) == RatingsFrom(<<>>, shoes, 1)

initialState(data) ==
  [ screen |-> "start",
    currentQuestionId |-> Num(0),
    ratings |-> createInitialRatings(data.shoes) ]

\* A reset that merges: it zeroes the catalog's entries and keeps the rest of
\* the old ratings.
AssignInitialStateMerging(w0) ==
  Strict(LAMBDA w :
    IF w.threw THEN w
    ELSE IF w.DATA = Null \/ "shoes" \in w.DATA[1].missing THEN Throw(w)
    ELSE LET fresh == initialState(w.DATA[1])
             old == IF w.state = Null THEN <<>> ELSE w.state[1].ratings
             merged == [k \in (DOMAIN old) \cup (DOMAIN fresh.ratings) |->
                          IF k \in DOMAIN fresh.ratings THEN Num(0) ELSE old[k]]
         IN [w EXCEPT !.state = Some([fresh EXCEPT !.ratings = merged]), !.picked = <<>>],
    w0)

\* state = initialState(): DATA.shoes throws on a null DATA, and the loop of
\* createInitialRatings throws on an undefined DATA.shoes.
AssignInitialState(w0) ==
  Strict(LAMBDA w :
    IF w.threw THEN w
    ELSE IF w.DATA = Null \/ "shoes" \in w.DATA[1].missing THEN Throw(w)
    ELSE [w EXCEPT !.state = Some(initialState(w.DATA[1])), !.picked = <<>>],
    w0)

\* A lookup that falls back to some question of the map.
getQuestionOrAny(map, id) ==
  IF id \in DOMAIN map THEN Some(map[id])
  ELSE IF DOMAIN map = {} THEN Null
  ELSE Some(map[CHOOSE k \in DOMAIN map : TRUE])

\* questionsById.get(id) || null
getQuestion(map, id) == IF id \in DOMAIN map THEN Some(map[id]) ELSE Null

\* A scoring that overwrites: ratings[k] = inc.
RECURSIVE AddEntriesOverwriting(_, _, _)
AddEntriesOverwriting(ratings0, entries, i) ==
  Strict(LAMBDA ratings :
    IF i > Len(entries) THEN ratings
    ELSE LET inc == entries[i].v
             d == NumberOf(IF Falsy(inc) THEN Num(0) ELSE inc)
         IN AddEntriesOverwriting(Put(ratings, entries[i].k, d), entries, i + 1),
    ratings0)

\* state.ratings[shoeId] = (state.ratings[shoeId] ?? 0) + Number(inc || 0),
\* for each entry in turn.
RECURSIVE AddEntries(_, _, _)
AddEntries(ratings0, entries, i) ==
  Strict(LAMBDA ratings :
    IF i > Len(entries) THEN ratings
    ELSE LET inc == entries[i].v
             d == NumberOf(IF Falsy(inc) THEN Num(0) ELSE inc)
         IN AddEntries(Put(ratings, entries[i].k,
                           NumAdd(RatingOrZero(ratings, entries[i].k), d)),
                       entries, i + 1),
    ratings0)

applyRatingIncrease(w0, ratingIncrease) ==
  Strict(LAMBDA w :
    IF w.threw THEN w
    ELSE IF ratingIncrease = Null \/ ratingIncrease[1] = <<>> THEN w
    ELSE IF w.state = Null THEN Throw(w)
    ELSE [w EXCEPT !.state[1].ratings = AddEntries(@, ratingIncrease[1], 1)],
    w0)

\* new Map(DATA.shoes.map((s, i) => [s.id, i]))
RECURSIVE OrderIndexFrom(_, _, _)
OrderIndexFrom(map0, shoes, i) ==
  Strict(LAMBDA map :
    IF i > Len(shoes) THEN map
    ELSE OrderIndexFrom(Put(map, shoes[i].id, i - 1), shoes, i + 1),
    map0)

\* A comparator that breaks ties by the later original position.
CompareRatedTiesReversed(a, b, orderIndex) ==
  IF NumStrictNotEqual(b.rating, a.rating) THEN NumSubtract(b.rating, a.rating)
  ELSE Num(GetOrZero(orderIndex, b.id) - GetOrZero(orderIndex, a.id))

\* The comparator of rankedShoes: negative when a sorts before b.
CompareRated(a, b, orderIndex) ==
  IF NumStrictNotEqual(b.rating, a.rating) THEN NumSubtract(b.rating, a.rating)
  ELSE Num(GetOrZero(orderIndex, a.id) - GetOrZero(orderIndex, b.id))

\* The order Array.prototype.sort reads from the comparator, a number of
\* its sign: NaN counts as 0.
SortOrder(a, b, orderIndex) ==
  Strict(LAMBDA v :
    CASE v.t = "nan" -> 0
      [] v.t \in {"number", "infinity", "double"} -> v.n,
    CompareRated(a, b, orderIndex))

(***************************************************************************)
(* Array.prototype.sort.  With a consistent comparator the result is the   *)
(* stable sort.  The comparator of rankedShoes is not consistent when a    *)
(* rating is NaN, and ECMAScript then leaves the order to the engine; the  *)
(* model sorts as V8 sorts an array of fewer than 64 elements: it takes    *)
(* the run the array starts with, reversed when it descends strictly, and  *)
(* inserts the other elements by binary search.                            *)
(***************************************************************************)
\* The length of the run that starts items (at least two elements).
RECURSIVE RunLengthFrom(_, _, _, _)
RunLengthFrom(items, idx, isDescending, orderIndex) ==
  IF idx > Len(items) THEN idx - 1
  ELSE Strict(LAMBDA order :
         IF (isDescending /\ order >= 0) \/ (~isDescending /\ order < 0)
         THEN idx - 1
         ELSE RunLengthFrom(items, idx + 1, isDescending, orderIndex),
         SortOrder(items[idx], items[idx - 1], orderIndex))

Reverse(items) == [i \in 1..Len(items) |-> items[Len(items) + 1 - i]]

\* The position (from 0) at which the binary search puts pivot among the
\* first `right` elements, starting from `left`.
RECURSIVE BinarySearch(_, _, _, _, _)
BinarySearch(sorted, pivot, left, right, orderIndex) ==
  IF left >= right THEN left
  ELSE Strict(LAMBDA mid :
         IF SortOrder(pivot, sorted[mid + 1], orderIndex) < 0
         THEN BinarySearch(sorted, pivot, left, mid, orderIndex)
         ELSE BinarySearch(sorted, pivot, mid + 1, right, orderIndex),
         left + ((right - left) \div 2))

\* The array with its first start elements sorted and the element behind
\* them inserted among them.
InsertSorted(sorted0, start, orderIndex) ==
  Strict(LAMBDA sorted :
    Strict(LAMBDA left :
      [i \in 1..Len(sorted) |->
         IF i <= left \/ i > start + 1 THEN sorted[i]
         ELSE IF i = left + 1 THEN sorted[start + 1]
         ELSE sorted[i - 1]],
      BinarySearch(sorted, sorted[start + 1], 0, start, orderIndex)),
    sorted0)

RECURSIVE SortFrom(_, _, _)
SortFrom(sorted0, start, orderIndex) ==
  Strict(LAMBDA sorted :
    IF start >= Len(sorted) THEN sorted
    ELSE SortFrom(InsertSorted(sorted, start, orderIndex), start + 1, orderIndex),
    sorted0)

\* items.sort(comparator)
Sort(items0, orderIndex) ==
  Strict(LAMBDA items :
    IF Len(items) < 2 THEN items
    ELSE Strict(LAMBDA isDescending :
           Strict(LAMBDA runLength :
             SortFrom(IF isDescending
                      THEN Reverse(SubSeq(items, 1, runLength))
                             \o SubSeq(items, runLength + 1, Len(items))
                      ELSE items,
                      runLength, orderIndex),
             RunLengthFrom(items, 3, isDescending, orderIndex)),
           SortOrder(items[2], items[1], orderIndex) < 0),
    items0)

rankedShoes(data, ratings) ==
  Strict(LAMBDA orderIndex :
    Sort([i \in 1..Len(data.shoes) |->
            [id |-> data.shoes[i].id, name |-> data.shoes[i].name,
             rating |-> RatingOrZero(ratings, data.shoes[i].id)]],
         orderIndex),
    OrderIndexFrom(<<>>, data.shoes, 1))


(***************************************************************************)
(* Screens, transitions and rendering.                                     *)
(***************************************************************************)
showOnly(w0, screenName) ==
  Strict(LAMBDA w :
    IF w.threw THEN w
    ELSE LET shown == [w EXCEPT !.visible = {screenName},
                                !.bodyIsResults = (screenName = "results")]
         IN IF shown.state = Null THEN Throw(shown)
            ELSE [shown EXCEPT !.state[1].screen = screenName],
    w0)

\* An update function passed to a transition: a closure of app.js.
Update(kind, next) == [kind |-> kind, next |-> next]
Listener(fn, update) == [fn |-> fn, update |-> update]
NoUpdate == Update("none", Undefined)

\* A transition that starts whatever the guard says.
transitionToUnguarded(w0, updateFn) ==
  Strict(LAMBDA w :
    IF w.threw THEN w
    ELSE [w EXCEPT !.isTransitioning = TRUE,
                   !.stageAnim = @ \/ ~w.stageIsOut,
                   !.stageIsOut = TRUE,
                   !.stageListeners = Append(@, Listener("onOutEnd", updateFn))],
    w0)

\* classList.add / classList.remove start an opacity transition when they
\* change the class.
transitionTo(w0, updateFn) ==
  Strict(LAMBDA w :
    IF w.threw \/ w.isTransitioning THEN w
    ELSE [w EXCEPT !.isTransitioning = TRUE,
                   !.stageAnim = @ \/ ~w.stageIsOut,
                   !.stageIsOut = TRUE,
                   !.stageListeners = Append(@, Listener("onOutEnd", updateFn))],
    w0)

fadeQuizContentAndUpdate(w0, updateFn) ==
  Strict(LAMBDA w :
    IF w.threw THEN w
    ELSE IF w.state = Null THEN Throw(w)
    ELSE IF w.state[1].screen # "quiz" \/ ~w.quizContentEl
         THEN transitionTo(w, updateFn)
    ELSE IF w.isTransitioning THEN w
    ELSE [w EXCEPT !.isTransitioning = TRUE,
                   !.quizAnim = @ \/ ~w.quizIsFading,
                   !.quizIsFading = TRUE,
                   !.quizListeners = Append(@, Listener("onFadeOutEnd", updateFn))],
    w0)

NotFoundText == "Question not found."

\* The buttons renderQuestionScreen creates for q: data-qid and data-aindex.
AnswerButtons(q) ==
  [i \in 1..Len(q.answers) |->
     [qid |-> StringOf(q.id), aindex |-> StringOf(Num(i - 1))]]

\* A render that stores the question id in neither variant.
renderQuestionScreenNotStoring(w0, questionId) ==
  Strict(LAMBDA w :
    IF w.threw THEN w
    ELSE IF w.questionsById = Null THEN Throw(w)
    ELSE LET q == getQuestion(w.questionsById[1], questionId)
         IN IF q = Null
            THEN [w EXCEPT !.questionText = NotFoundText, !.answers = <<>>]
            ELSE [w EXCEPT !.questionText = q[1].copy,
                           !.answers = AnswerButtons(q[1])],
    w0)

\* Variant 1 stores the question id in state.currentQuestionId (line 287);
\* variant 2 does not (lines 763-786).
renderQuestionScreen(w0, questionId) ==
  Strict(LAMBDA w :
    IF w.threw THEN w
    ELSE IF w.questionsById = Null THEN Throw(w)
    ELSE LET q == getQuestion(w.questionsById[1], questionId)
         IN IF q = Null
            THEN [w EXCEPT !.questionText = NotFoundText, !.answers = <<>>]
            ELSE IF w.variant = 1 /\ w.state = Null THEN Throw(w)
            ELSE LET w1 == IF w.variant = 1
                           THEN [w EXCEPT !.state[1].currentQuestionId = questionId]
                           ELSE w
                 IN [w1 EXCEPT !.questionText = q[1].copy,
                               !.answers = AnswerButtons(q[1])],
    w0)

createShoeTile(shoe) == [shoeId |-> shoe.id, name |-> shoe.name]

\* A render that sorts DATA.shoes itself, in place, and shows its head.
renderResultsScreenSortingInPlace(w0) ==
  Strict(LAMBDA w :
    IF w.threw THEN w
    ELSE IF w.DATA = Null \/ "shoes" \in w.DATA[1].missing THEN Throw(w)
    ELSE IF w.state = Null /\ w.DATA[1].shoes # <<>> THEN Throw(w)
    ELSE Strict(LAMBDA ranked :
           LET sorted == [i \in 1..Len(ranked) |-> Shoe(ranked[i].id, ranked[i].name)]
               recommended == ArrayGet(sorted, Num(0))
               similar == Slice(sorted, 1, 3)
           IN [w EXCEPT
                 !.DATA = Some([w.DATA[1] EXCEPT !.shoes = sorted]),
                 !.summary = IF ~w.summaryEl THEN @
                             ELSE IF recommended # Null /\ Len(similar) > 0
                             THEN <<recommended[1].name, similar[1].name>>
                             ELSE IF recommended # Null THEN <<recommended[1].name>>
                             ELSE <<>>,
                 !.recommendedSlot = IF recommended # Null
                                     THEN <<createShoeTile(recommended[1])>>
                                     ELSE <<>>,
                 !.similarGrid = [i \in 1..Len(similar) |-> createShoeTile(similar[i])]],
           rankedShoes(w.DATA[1],
                       IF w.state = Null THEN <<>> ELSE w.state[1].ratings)),
    w0)

\* rankedShoes() throws on a null DATA and on an undefined DATA.shoes; it
\* reads state.ratings once per shoe, so a null state throws when there is a
\* shoe.  The summary is written when #results-summary exists.
renderResultsScreen(w0) ==
  Strict(LAMBDA w :
    IF w.threw THEN w
    ELSE IF w.DATA = Null \/ "shoes" \in w.DATA[1].missing THEN Throw(w)
    ELSE IF w.state = Null /\ w.DATA[1].shoes # <<>> THEN Throw(w)
    ELSE Strict(LAMBDA ranked :
           LET recommended == ArrayGet(ranked, Num(0))
               similar == Slice(ranked, 1, 3)
           IN [w EXCEPT
                 !.summary = IF ~w.summaryEl THEN @
                             ELSE IF recommended # Null /\ Len(similar) > 0
                             THEN <<recommended[1].name, similar[1].name>>
                             ELSE IF recommended # Null THEN <<recommended[1].name>>
                             ELSE <<>>,
                 !.recommendedSlot = IF recommended # Null
                                     THEN <<createShoeTile(recommended[1])>>
                                     ELSE <<>>,
                 !.similarGrid = [i \in 1..Len(similar) |-> createShoeTile(similar[i])]],
           rankedShoes(w.DATA[1],
                       IF w.state = Null THEN <<>> ELSE w.state[1].ratings)),
    w0)

\* The bodies of the update closures.
RunUpdate(wIn, u) ==
  Strict(LAMBDA w :
    LET wm == [w EXCEPT !.ran = @ \cup {u.kind}]
    IN CASE u.kind \in {"startQuiz", "restartQuiz"} ->
              renderQuestionScreen(showOnly(AssignInitialState(wm), "quiz"), Num(0))
         [] u.kind = "home" ->
              showOnly(IF wm.DATA # Null THEN AssignInitialState(wm) ELSE wm, "start")
         [] u.kind = "loading" -> showOnly(wm, "loading")
         [] u.kind = "results" -> renderResultsScreen(showOnly(wm, "results"))
         [] u.kind = "next" ->
              Strict(LAMBDA questionId : renderQuestionScreen(wm, questionId),
                     NumberOf(u.next))
         [] OTHER -> wm,
    wIn)

\* removeEventListener: the first registration of l.
RECURSIVE RemoveFirst(_, _)
RemoveFirst(listeners0, l) ==
  Strict(LAMBDA listeners :
    IF listeners = <<>> THEN <<>>
    ELSE IF Head(listeners) = l THEN Tail(listeners)
    ELSE <<Head(listeners)>> \o RemoveFirst(Tail(listeners), l),
    listeners0)

\* A transitionend listener of #stage, called for propertyName "opacity".
StageListenerCall(w0, l) ==
  Strict(LAMBDA w :
    IF l.fn = "onOutEnd"
    THEN Strict(LAMBDA w2 :
           IF w2.threw THEN w2
           ELSE [w2 EXCEPT !.stageAnim = @ \/ w2.stageIsOut,
                           !.stageIsOut = FALSE,
                           !.stageListeners = Append(@, Listener("onInEnd", NoUpdate))],
           RunUpdate([w EXCEPT !.stageListeners = RemoveFirst(@, l)], l.update))
    ELSE [w EXCEPT !.stageListeners = RemoveFirst(@, l), !.isTransitioning = FALSE],
    w0)

\* A transitionend listener of #quiz-content.
QuizListenerCall(w0, l) ==
  Strict(LAMBDA w :
    IF l.fn = "onFadeOutEnd"
    THEN Strict(LAMBDA w2 :
           IF w2.threw THEN w2
           ELSE [w2 EXCEPT !.quizAnim = @ \/ w2.quizIsFading,
                           !.quizIsFading = FALSE,
                           !.quizListeners = Append(@, Listener("onFadeInEnd", NoUpdate))],
           RunUpdate([w EXCEPT !.quizListeners = RemoveFirst(@, l)], l.update))
    ELSE [w EXCEPT !.quizListeners = RemoveFirst(@, l), !.isTransitioning = FALSE],
    w0)

InSeq(x, seq) == \E i \in 1..Len(seq) : seq[i] = x

\* An exception of a listener or handler is reported, never propagated.
Caught(w0) ==
  Strict(LAMBDA w :
    [w EXCEPT !.threw = FALSE, !.uncaught = @ \/ w.threw],
    w0)

\* dispatchEvent: the listeners registered when the event is dispatched, in
\* order, skipping those removed meanwhile.
RECURSIVE DispatchStage(_, _, _)
DispatchStage(w0, snapshot, i) ==
  Strict(LAMBDA w :
    IF i > Len(snapshot) THEN w
    ELSE DispatchStage(
           IF InSeq(snapshot[i], w.stageListeners)
           THEN Caught(StageListenerCall(w, snapshot[i]))
           ELSE w,
           snapshot, i + 1),
    w0)

RECURSIVE DispatchQuiz(_, _, _)
DispatchQuiz(w0, snapshot, i) ==
  Strict(LAMBDA w :
    IF i > Len(snapshot) THEN w
    ELSE DispatchQuiz(
           IF InSeq(snapshot[i], w.quizListeners)
           THEN Caught(QuizListenerCall(w, snapshot[i]))
           ELSE w,
           snapshot, i + 1),
    w0)

(***************************************************************************)
(* Actions of app.js.                                                      *)
(***************************************************************************)
startQuiz(w) == transitionTo(w, Update("startQuiz", Undefined))

restartQuiz(w) == transitionTo(w, Update("restartQuiz", Undefined))

\* A loose test, !next: the number 0 ends the quiz too.
IsTerminalMarkerLoose(next) == Falsy(next)

\* next === "" || next === null || typeof next === "undefined"
IsTerminalMarker(next) ==
  \/ next.t = "string" /\ next.s = ""
  \/ next.t = "null"
  \/ next.t = "undefined"

ResultsTimer == [fn |-> "results", delay |-> 900]

\* A terminal branch whose variant 1 shows loading and sets the timer
\* without taking the guard.
FinishQuizWithoutGuard(w0) ==
  Strict(LAMBDA w :
    IF w.variant = 1
    THEN IF w.isTransitioning THEN w
         ELSE LET w1 == showOnly(w, "loading")
              IN IF w1.threw THEN w1
                 ELSE [w1 EXCEPT !.timers = Append(@, ResultsTimer)]
    ELSE LET w1 == transitionTo(w, Update("loading", Undefined))
         IN [w1 EXCEPT !.timers = Append(@, ResultsTimer)],
    w0)

\* The branch of handleAnswerClick for a terminal marker.
FinishQuiz(w0) ==
  Strict(LAMBDA w :
    IF w.variant = 1
    THEN IF w.isTransitioning THEN w
         ELSE LET w1 == showOnly([w EXCEPT !.isTransitioning = TRUE], "loading")
              IN IF w1.threw THEN w1
                 ELSE [w1 EXCEPT !.timers = Append(@, ResultsTimer)]
    ELSE LET w1 == transitionTo(w, Update("loading", Undefined))
         IN [w1 EXCEPT !.timers = Append(@, ResultsTimer)],
    w0)

handleAnswerClick(w0, qidStr, aIndexStr) ==
  Strict(LAMBDA w :
    Strict(LAMBDA qid :
      Strict(LAMBDA aIndex :
        IF w.threw THEN w
        ELSE IF w.questionsById = Null THEN Throw(w)
        ELSE LET q == getQuestion(w.questionsById[1], qid)
             IN IF q = Null THEN w
                ELSE LET ans == ArrayGet(q[1].answers, aIndex)
                     IN IF ans = Null THEN w
                        ELSE Strict(LAMBDA w1 :
                               LET w2 == [w1 EXCEPT !.accepted = ~w1.threw,
                                                    !.picked = IF w1.threw THEN @
                                                               ELSE Append(@, ans[1])]
                                   next == ans[1].nextQuestion
                               IN IF w2.threw THEN w2
                                  ELSE IF IsTerminalMarker(next) THEN FinishQuiz(w2)
                                  ELSE fadeQuizContentAndUpdate(w2, Update("next", next)),
                               applyRatingIncrease(w, ans[1].ratingIncrease)),
        NumberOf(aIndexStr)),
      NumberOf(qidStr)),
    w0)

\* A home navigation that releases a set guard and starts its transition.
goToStartScreenReleasing(w0) ==
  Strict(LAMBDA w :
    transitionTo([w EXCEPT !.isTransitioning = FALSE], Update("home", Undefined)),
    w0)

goToStartScreen(w0) ==
  Strict(LAMBDA w :
    IF w.isTransitioning THEN w
    ELSE transitionTo(w, Update("home", Undefined)),
    w0)

\* The 900 ms timer callback of handleAnswerClick.
TimerCallback(wIn) ==
  Strict(LAMBDA w :
    IF w.variant = 1
    THEN Strict(LAMBDA w1 :
           IF w1.threw THEN w1 ELSE [w1 EXCEPT !.isTransitioning = FALSE],
           renderResultsScreen(showOnly([w EXCEPT !.ran = @ \cup {"results"}], "results")))
    ELSE transitionTo(w, Update("results", Undefined)),
    wIn)

\* A click listener without the guard.
StageClickListenerUnguarded(w0, target) ==
  Strict(LAMBDA w :
    IF target.class = "answer-btn"
    THEN handleAnswerClick(w, Str(target.qid), Str(target.aindex))
    ELSE IF target.action = "shop" THEN [w EXCEPT !.alerts = TRUE]
    ELSE w,
    w0)

\* The delegated click listener of #stage; target is the button clicked.  A
\* swatch click moves the class is-active between swatches, which is no part
\* of the state.
StageClickListener(w0, target) ==
  Strict(LAMBDA w :
    IF w.isTransitioning THEN w
    ELSE IF target.class = "answer-btn"
         THEN handleAnswerClick(w, Str(target.qid), Str(target.aindex))
         ELSE IF target.action = "shop" THEN [w EXCEPT !.alerts = TRUE]
         ELSE w,
    w0)

\* init() from `await fetch(DATA_URL)` to `await res.json()`: a rejected
\* fetch is caught and a response that is not ok returns, each after an
\* alert.
initFetchSettled(w0, outcome) ==
  Strict(LAMBDA w :
    IF outcome # "ok" THEN [w EXCEPT !.alerts = TRUE] ELSE w,
    w0)

\* init() from `await res.json()` to its end: a body that is no JSON is
\* caught, as is an exception of the statements that follow.
initJsonSettled(w0, outcome, document) ==
  Strict(LAMBDA w :
    IF outcome # "ok" THEN [w EXCEPT !.alerts = TRUE]
    ELSE LET wd == [w EXCEPT !.DATA = Some(document)]
             w1 == IF "questions" \in document.missing THEN Throw(wd)
                   ELSE [wd EXCEPT !.questionsById =
                                     Some(buildQuestionsMap(document.questions))]
             w2 == showOnly(AssignInitialState(w1), "start")
         IN IF w2.threw THEN [w2 EXCEPT !.threw = FALSE, !.alerts = TRUE] ELSE w2,
    w0)


(***************************************************************************)
(* Events.  Each action is one run of an event handler to completion.      *)
(***************************************************************************)
Event(op, qid, aindex, w, busy) ==
  [ op |-> op, qid |-> qid, aindex |-> aindex, busy |-> busy, prior |-> state,
    ran |-> w.ran, accepted |-> w.accepted, threw |-> w.uncaught ]

Commit(w, event) ==
  /\ DATA' = w.DATA
  /\ questionsById' = w.questionsById
  /\ state' = w.state
  /\ isTransitioning' = w.isTransitioning
  /\ visible' = w.visible
  /\ bodyIsResults' = w.bodyIsResults
  /\ stageIsOut' = w.stageIsOut
  /\ quizIsFading' = w.quizIsFading
  /\ stageAnim' = w.stageAnim
  /\ quizAnim' = w.quizAnim
  /\ stageListeners' = w.stageListeners
  /\ quizListeners' = w.quizListeners
  /\ timers' = w.timers
  /\ questionText' = w.questionText
  /\ answers' = w.answers
  /\ summary' = w.summary
  /\ recommendedSlot' = w.recommendedSlot
  /\ similarGrid' = w.similarGrid
  /\ alerts' = w.alerts
  /\ picked' = w.picked
  /\ last' = event
  /\ UNCHANGED <<variant, doc, quizContentEl, summaryEl>>

\* The page as index.html delivers it: the start screen shown, the others
\* hidden, no answer buttons, no tiles.
InitialVisible == {"start"}

FetchOutcomes == {"ok", "httpError", "networkError"}

JsonOutcomes == {"ok", "syntaxError"}

InitWith(documents) ==
  /\ variant \in {1, 2}
  /\ doc \in documents
  /\ initPc = "fetch"
  /\ DATA = Null
  /\ questionsById = Null
  /\ state = Null
  /\ isTransitioning = FALSE
  /\ quizContentEl = TRUE
  /\ summaryEl = TRUE
  /\ visible = InitialVisible
  /\ bodyIsResults = FALSE
  /\ stageIsOut = FALSE
  /\ quizIsFading = FALSE
  /\ stageAnim = FALSE
  /\ quizAnim = FALSE
  /\ stageListeners = <<>>
  /\ quizListeners = <<>>
  /\ timers = <<>>
  /\ questionText = ""
  /\ answers = <<>>
  /\ summary = <<>>
  /\ recommendedSlot = <<>>
  /\ similarGrid = <<>>
  /\ alerts = FALSE
  /\ picked = <<>>
  /\ last = [ op |-> "load", qid |-> Undefined, aindex |-> Undefined, busy |-> FALSE,
              prior |-> Null, ran |-> {}, accepted |-> FALSE, threw |-> FALSE ]

Init == InitWith(Documents)

\* init() has finished.
booted == initPc = "done"

\* The fetch of init() settles: init() runs to `await res.json()`, or to its
\* end when the fetch failed.
FetchSettles ==
  /\ initPc = "fetch"
  /\ \E outcome \in FetchOutcomes :
       /\ initPc' = IF outcome = "ok" THEN "json" ELSE "done"
       /\ \E w \in {initFetchSettled(World, outcome)} :
            Commit(w, Event("fetch", Undefined, Undefined, w, isTransitioning))

\* res.json() settles: init() runs to its end.
JsonSettles ==
  /\ initPc = "json"
  /\ initPc' = "done"
  /\ \E outcome \in JsonOutcomes :
       \E w \in {initJsonSettled(World, outcome, doc)} :
         Commit(w, Event("init", Undefined, Undefined, w, isTransitioning))

\* A click on #start-btn, a button of the start screen.
StartClick ==
  /\ "start" \in visible
  /\ \E w \in {Caught(startQuiz(World))} :
       Commit(w, Event("start", Undefined, Undefined, w, isTransitioning))
  /\ UNCHANGED initPc

\* A click on #restart-btn, a button of the results screen.
RestartClick ==
  /\ "results" \in visible
  /\ \E w \in {Caught(restartQuiz(World))} :
       Commit(w, Event("restart", Undefined, Undefined, w, isTransitioning))
  /\ UNCHANGED initPc

\* A click on the hamburger menu or on the logo.
HomeClick ==
  /\ \E w \in {Caught(goToStartScreen(World))} :
       Commit(w, Event("home", Undefined, Undefined, w, isTransitioning))
  /\ UNCHANGED initPc

\* The buttons a click can land on, as the #stage listener sees them.
AnswerButton(b) ==
  [class |-> "answer-btn", qid |-> b.qid, aindex |-> b.aindex, action |-> ""]
ShopButton == [class |-> "results__cta", qid |-> "", aindex |-> "", action |-> "shop"]
SwatchButton == [class |-> "swatch", qid |-> "", aindex |-> "", action |-> ""]

\* A click on one of the answer buttons of the quiz screen.
AnswerClick ==
  /\ "quiz" \in visible
  /\ Len(picked) < MaxPicked
  /\ Len(timers) < MaxTimers
  /\ \E i \in 1..Len(answers) :
       \E w \in {Caught(StageClickListener(World, AnswerButton(answers[i])))} :
         Commit(w, Event("answer", Str(answers[i].qid), Str(answers[i].aindex), w,
                         isTransitioning))
  /\ UNCHANGED initPc

\* A click on a "Shop now" button or a swatch of a rendered tile.
TileClick ==
  /\ "results" \in visible
  /\ recommendedSlot # <<>>
  /\ \E target \in {ShopButton, SwatchButton} :
       \E w \in {Caught(StageClickListener(World, target))} :
         Commit(w, Event("tile", Undefined, Undefined, w, isTransitioning))
  /\ UNCHANGED initPc

\* transitionend (propertyName "opacity") on #stage.
StageTransitionEnd ==
  /\ stageAnim
  /\ \E w0 \in {[World EXCEPT !.stageAnim = FALSE]} :
       \E w \in {DispatchStage(w0, w0.stageListeners, 1)} :
         Commit(w, Event("stageEnd", Undefined, Undefined, w, isTransitioning))
  /\ UNCHANGED initPc

\* transitionend (propertyName "opacity") on #quiz-content; it bubbles to
\* #stage.
QuizTransitionEnd ==
  /\ quizAnim
  /\ \E w0 \in {[World EXCEPT !.quizAnim = FALSE]} :
       \E w1 \in {DispatchQuiz(w0, w0.quizListeners, 1)} :
         \E w \in {DispatchStage(w1, w1.stageListeners, 1)} :
           Commit(w, Event("quizEnd", Undefined, Undefined, w, isTransitioning))
  /\ UNCHANGED initPc

\* The oldest pending timer fires.
TimerFire ==
  /\ timers # <<>>
  /\ \E w \in {Caught(TimerCallback([World EXCEPT !.timers = Tail(@)]))} :
       Commit(w, Event("timer", Undefined, Undefined, w, isTransitioning))
  /\ UNCHANGED initPc

Next ==
  \/ FetchSettles
  \/ JsonSettles
  \/ StartClick
  \/ RestartClick
  \/ HomeClick
  \/ AnswerClick
  \/ TileClick
  \/ StageTransitionEnd
  \/ QuizTransitionEnd
  \/ TimerFire

Spec == Init /\ [][Next]_vars

(***************************************************************************)
(* handleAnswerClick called directly, with any arguments, as a test of     *)
(* the function would call it.                                             *)
(***************************************************************************)
\* Pairs (qidStr, aIndexStr): answers of DocTwo, question ids that do not
\* resolve, indexes that are negative, too large or not a number, and the
\* empty string, which Number() reads as 0.
CallArgs ==
  { <<Str("0"), Str("0")>>, <<Str("0"), Str("1")>>, <<Str("1"), Str("0")>>,
    <<Str(""), Str("")>>,
    <<Str("7"), Str("0")>>, <<Str("abc"), Str("0")>>, <<Undefined, Str("0")>>,
    <<Str("-1"), Str("0")>>,
    <<Str("0"), Str("-1")>>, <<Str("0"), Str("2")>>, <<Str("1"), Str("1")>>,
    <<Str("0"), Str("abc")>>, <<Str("1"), Undefined>> }

DirectCall ==
  /\ Len(picked) < MaxPicked
  /\ Len(timers) < MaxTimers
  /\ \E args \in CallArgs :
       \E w \in {Caught(handleAnswerClick(World, args[1], args[2]))} :
         Commit(w, Event("call", args[1], args[2], w, isTransitioning))
  /\ UNCHANGED initPc

NextCall ==
  \/ FetchSettles
  \/ JsonSettles
  \/ StartClick
  \/ StageTransitionEnd
  \/ QuizTransitionEnd
  \/ TimerFire
  \/ DirectCall

InitCall ==
  /\ Init
  /\ doc = DocTwo

SpecCall == InitCall /\ [][NextCall]_vars

\* Completion signals are delivered: a running opacity transition ends, a
\* pending timer fires.
Fairness ==
  /\ WF_vars(StageTransitionEnd)
  /\ WF_vars(QuizTransitionEnd)
  /\ WF_vars(TimerFire)

SpecFair == Spec /\ Fairness

\* The page with a document that is malformed, has two questions of one id,
\* or has no question 0.
InitLoad == InitWith(LoadDocuments)

SpecLoad == InitLoad /\ [][Next]_vars

(***************************************************************************)
(* A playthrough: the user starts the quiz and keeps answering, without    *)
(* home navigation or restart.                                             *)
(***************************************************************************)
\* Two questions that lead to each other; the answers of the cycle carry no
\* ratingIncrease, the way out is the second answer of question 1.
DocCycle ==
  Document(<<ShoeA, ShoeB>>,
    << Question(Num(0), "Q0",
         << Answer("a0", Null, Num(1)) >>),
       Question(Num(1), "Q1",
         << Answer("a0", Null, Num(0)),
            Answer("a1", Some(<<Inc("b", Num(1))>>), JSNull) >>) >>)

PlayDocuments == Documents \cup {DocCycle}

InitPlay == InitWith(PlayDocuments)

NextPlay ==
  \/ FetchSettles
  \/ JsonSettles
  \/ StartClick
  \/ AnswerClick
  \/ StageTransitionEnd
  \/ QuizTransitionEnd
  \/ TimerFire

\* The user keeps answering and completion signals are delivered.
FairnessPlay ==
  /\ WF_vars(AnswerClick)
  /\ WF_vars(StageTransitionEnd)
  /\ WF_vars(QuizTransitionEnd)
  /\ WF_vars(TimerFire)

SpecPlay == InitPlay /\ [][NextPlay]_vars /\ FairnessPlay


(***************************************************************************)
(* Properties.                                                             *)
(***************************************************************************)
CatalogIds == IF DATA = Null THEN {} ELSE {DATA[1].shoes[i].id : i \in 1..Len(DATA[1].shoes)}

\* The delta an entry of ratingIncrease carries: its number, 0 for null.
DeltaOf(v) == IF v.t = "number" THEN v.n ELSE 0

RECURSIVE EntrySum(_, _, _)
EntrySum(entries, id, i) ==
  IF i > Len(entries) THEN 0
  ELSE (IF entries[i].k = id THEN DeltaOf(entries[i].v) ELSE 0) + EntrySum(entries, id, i + 1)

AnswerDelta(ans, id) ==
  IF ans.ratingIncrease = Null THEN 0 ELSE EntrySum(ans.ratingIncrease[1], id, 1)

AnswerKeys(ans) ==
  IF ans.ratingIncrease = Null THEN {}
  ELSE {ans.ratingIncrease[1][i].k : i \in 1..Len(ans.ratingIncrease[1])}

RECURSIVE SelectedSum(_, _, _)
SelectedSum(selected, id, i) ==
  IF i > Len(selected) THEN 0
  ELSE AnswerDelta(selected[i], id) + SelectedSum(selected, id, i + 1)

SelectedKeys(selected) == UNION {AnswerKeys(selected[i]) : i \in 1..Len(selected)}

\* C1: scoring is additive.  Whenever a session exists, every rating is the
\* sum of the deltas of the answers selected since the state was last
\* replaced; an absent key or ratingIncrease adds 0, a key missing from
\* ratings is created from 0, negative deltas subtract, nothing is clamped.
C1_ScoringAdditive ==
  state # Null =>
    /\ DOMAIN state[1].ratings = CatalogIds \cup SelectedKeys(picked)
    /\ \A id \in CatalogIds \cup SelectedKeys(picked) \cup {"zz"} :
         RatingOrZero(state[1].ratings, id) = Num(SelectedSum(picked, id, 1))

\* The delta {a: 3, b: 1} applied twice, by two different questions.
C1_Witness ==
  /\ state # Null
  /\ doc = DocFour
  /\ Len(picked) = 2
  /\ picked[1].ratingIncrease = picked[2].ratingIncrease
  /\ state[1].ratings["a"] = Num(6)
  /\ state[1].ratings["b"] = Num(2)

\* Reachability probes for C1: a negative rating, an out-of-catalog key.
C1_WitnessNegative == state # Null /\ \E id \in DOMAIN state[1].ratings : state[1].ratings[id].n < 0
C1_WitnessExtraKey == state # Null /\ "zz" \in DOMAIN state[1].ratings /\ CatalogIds # {}

OriginalIndex(id) == CHOOSE i \in 1..Len(DATA[1].shoes) : DATA[1].shoes[i].id = id

\* The ratings compared are integers.
Precedes(a, b) ==
  \/ a.rating.n > b.rating.n
  \/ a.rating = b.rating /\ OriginalIndex(a.id) < OriginalIndex(b.id)

\* C2: rankedShoes holds every catalog item exactly once and nothing else,
\* each with its rating, and A is before B iff A has the higher rating, or the
\* same rating and the earlier original position.
C2_RankingOrder ==
  (DATA # Null /\ state # Null) =>
    LET shoes == DATA[1].shoes
        ranked == rankedShoes(DATA[1], state[1].ratings)
    IN /\ Len(ranked) = Len(shoes)
       /\ \A i \in 1..Len(shoes) :
            Cardinality({j \in 1..Len(ranked) : ranked[j].id = shoes[i].id}) = 1
       /\ \A j \in 1..Len(ranked) :
            /\ ranked[j].id \in CatalogIds
            /\ ranked[j].rating.t = "number"
            /\ ranked[j].rating = RatingOrZero(state[1].ratings, ranked[j].id)
       /\ \A i, j \in 1..Len(ranked) :
            i # j => ((i < j) <=> Precedes(ranked[i], ranked[j]))

\* a = 5, b = 5, c = 9 (and d = 0) rank as c, a, b, d.
C2_Witness ==
  /\ DATA # Null /\ state # Null
  /\ doc = DocFour
  /\ state[1].ratings = ("a" :> Num(5) @@ "b" :> Num(5) @@ "c" :> Num(9) @@ "d" :> Num(0))
  /\ LET ranked == rankedShoes(DATA[1], state[1].ratings)
     IN [i \in 1..4 |-> ranked[i].id] = <<"c", "a", "b", "d">>

\* The answer the last answer click chose.
ChosenAnswer ==
  LET q == questionsById[1][NumberOf(last.qid)]
  IN q.answers[NumberOf(last.aindex).n + 1]

AnswerAccepted == last.op = "answer" /\ last.accepted

\* C3: an accepted answer click ends the quiz (variant 1: the loading screen
\* is shown and the results timer set; variant 2: the transition to loading is
\* started and the results timer set) exactly when the answer's nextQuestion
\* is absent, null or ""; for any other value, the integer 0 included, it
\* starts the fade to the question with that id and sets no timer.
C3_FinishedIffTerminal ==
  [][ (last'.op = "answer" /\ last'.accepted) =>
        LET q == questionsById[1][NumberOf(last'.qid)]
            next == q.answers[NumberOf(last'.aindex).n + 1].nextQuestion
            finishing ==
              /\ timers' = Append(timers, ResultsTimer)
              /\ quizListeners' = quizListeners
              /\ IF variant = 1
                 THEN state'[1].screen = "loading" /\ visible' = {"loading"}
                 ELSE stageListeners' =
                        Append(stageListeners,
                               Listener("onOutEnd", Update("loading", Undefined)))
            continuing ==
              /\ timers' = timers
              /\ state'[1].screen = "quiz"
              /\ stageListeners' = stageListeners
              /\ quizListeners' =
                   Append(quizListeners, Listener("onFadeOutEnd", Update("next", next)))
        IN IF next \in {Undefined, JSNull, Str("")}
           THEN finishing /\ ~continuing
           ELSE continuing /\ ~finishing /\ next.t = "number"
    ]_vars

\* An accepted answer whose nextQuestion is the integer 0 continues to
\* question 0.
C3_Witness ==
  /\ AnswerAccepted
  /\ ChosenAnswer.nextQuestion = Num(0)
  /\ quizListeners = <<Listener("onFadeOutEnd", Update("next", Num(0)))>>
  /\ timers = <<>>

\* Reachability probes for C3: each of the three terminal markers ends the quiz.
C3_WitnessAbsent == AnswerAccepted /\ ChosenAnswer.nextQuestion = Undefined /\ timers # <<>>
C3_WitnessNull == AnswerAccepted /\ ChosenAnswer.nextQuestion = JSNull /\ timers # <<>>
C3_WitnessEmpty == AnswerAccepted /\ ChosenAnswer.nextQuestion = Str("") /\ timers # <<>>

\* The results screen was shown and rendered by the last event.
ResultsRendered == "results" \in last.ran /\ ~last.threw

Tile(r) == [shoeId |-> r.id, name |-> r.name]

\* C4: the rendered result is a prefix split of the ranking: the recommended
\* slot holds the item at position 0 (nothing for an empty ranking), the
\* similar grid the items at positions 1 and 2, fewer when fewer exist.
C4_ResultPrefixSplit ==
  ResultsRendered =>
    LET ranked == rankedShoes(DATA[1], state[1].ratings)
        n == Len(ranked)
    IN /\ recommendedSlot = IF n = 0 THEN <<>> ELSE <<Tile(ranked[1])>>
       /\ Len(similarGrid) = (IF n >= 3 THEN 2 ELSE IF n = 2 THEN 1 ELSE 0)
       /\ \A i \in 1..Len(similarGrid) : similarGrid[i] = Tile(ranked[i + 1])
       /\ Len(similarGrid) <= 2

\* Four items: one recommended, two similar, the fourth not shown.
C4_Witness ==
  /\ ResultsRendered
  /\ Len(DATA[1].shoes) = 4
  /\ Len(recommendedSlot) = 1
  /\ Len(similarGrid) = 2

\* Reachability probes for C4: catalogs of 0, 1 and 2 items.
C4_WitnessNone == ResultsRendered /\ Len(DATA[1].shoes) = 0 /\ recommendedSlot = <<>> /\ similarGrid = <<>>
C4_WitnessOne == ResultsRendered /\ Len(DATA[1].shoes) = 1 /\ Len(recommendedSlot) = 1 /\ similarGrid = <<>>
C4_WitnessTwo == ResultsRendered /\ Len(DATA[1].shoes) = 2 /\ Len(similarGrid) = 1

\* C5: an answer click that arrives while isTransitioning is true changes
\* neither the session (ratings, currentQuestionId, screen) nor the guard, and
\* registers no listener and no timer, in both variants.
C5_ClickIgnoredWhileTransitioning ==
  [][ (last'.op = "answer" /\ isTransitioning) =>
        /\ state' = state
        /\ isTransitioning' = isTransitioning
        /\ visible' = visible
        /\ timers' = timers
        /\ stageListeners' = stageListeners
        /\ quizListeners' = quizListeners
        /\ picked' = picked
    ]_vars

\* An answer button was clicked during a transition, in a session that has
\* already scored an answer.
C5_Witness ==
  /\ last.op = "answer"
  /\ last.busy
  /\ isTransitioning
  /\ picked # <<>>
  /\ variant = 2

C5_WitnessVariant1 == last.op = "answer" /\ last.busy /\ isTransitioning /\ variant = 1


\* The last event was an accepted answer click that carried a terminal marker.
TerminalAccepted ==
  /\ AnswerAccepted
  /\ ChosenAnswer.nextQuestion \in {Undefined, JSNull, Str("")}

LoadingShown == state # Null /\ state[1].screen = "loading" /\ visible = {"loading"}

\* C6: after an accepted terminal answer the loading screen is shown, and the
\* results screen is eventually shown and rendered, when transition ends and
\* timers are delivered, in any order, in both variants.
C6_ResultsEventuallyShown ==
  /\ TerminalAccepted ~> LoadingShown
  /\ TerminalAccepted ~> ResultsRendered

\* C6 for the first variant alone, and the loading half for both.
C6_Variant1 == (variant = 1 /\ TerminalAccepted) ~> ResultsRendered
C6_LoadingShown == TerminalAccepted ~> LoadingShown

\* What renderResultsScreen shows for ratings that are the sums over selected.
ExpectedTiles(selected) ==
  LET ids == CatalogIds \cup SelectedKeys(selected)
      sums == [id \in ids |-> Num(SelectedSum(selected, id, 1))]
      ranked == rankedShoes(DATA[1], sums)
  IN [i \in 1..(IF Len(ranked) < 3 THEN Len(ranked) ELSE 3) |-> Tile(ranked[i])]

\* C7: results are rendered only for a session that has just ended with a
\* terminal answer and was not reset since, from the scores of exactly the
\* answers chosen in it.
C7_ResultsOnlyForEndedSession ==
  ResultsRendered =>
    /\ picked # <<>>
    /\ picked[Len(picked)].nextQuestion \in {Undefined, JSNull, Str("")}
    /\ recommendedSlot \o similarGrid = ExpectedTiles(picked)

\* C7 for the first variant alone.
C7_Variant1 == variant = 1 => C7_ResultsOnlyForEndedSession
C7_Variant1Witness == variant = 1 /\ ResultsRendered /\ Len(picked) = 3

ResetRan == last.ran \cap {"startQuiz", "restartQuiz", "home"} # {} /\ ~last.threw

\* C8: once the update step of startQuiz, restartQuiz or goToStartScreen has
\* run with data loaded, ratings has exactly one entry per catalog item, each
\* 0, and currentQuestionId is 0, whatever the previous session held.
C8_ResetReplacesSession ==
  (ResetRan /\ DATA # Null) =>
    /\ state # Null
    /\ DOMAIN state[1].ratings = CatalogIds
    /\ \A id \in CatalogIds : state[1].ratings[id] = Num(0)
    /\ state[1].currentQuestionId = Num(0)
    /\ picked = <<>>

\* A restart after a session that created the out-of-catalog key zz and was
\* at question 2.
C8_Witness ==
  /\ "restartQuiz" \in last.ran
  /\ ~last.threw
  /\ CatalogIds = {"a", "b", "c", "d"}
  /\ last.prior # Null
  /\ DOMAIN last.prior[1].ratings = {"a", "b", "c", "d", "zz"}
  /\ last.prior[1].ratings["c"] = Num(2)
  /\ last.prior[1].currentQuestionId = Num(2)

C8_WitnessHome == "home" \in last.ran /\ last.prior # Null /\ "zz" \in DOMAIN last.prior[1].ratings

\* C9: for a loaded, well-formed dataset initialState gives screen = start,
\* currentQuestionId = 0 and one rating per catalog item, each 0; init()
\* installs exactly that state.
C9_InitialState ==
  DATA # Null =>
    LET s == initialState(DATA[1])
    IN /\ s.screen = "start"
       /\ s.currentQuestionId = Num(0)
       /\ DOMAIN s.ratings = CatalogIds
       /\ Cardinality(DOMAIN s.ratings) = Len(DATA[1].shoes)
       /\ \A id \in CatalogIds : s.ratings[id] = Num(0)
       /\ (last.op = "init" => state = Some(s))

C9_Witness ==
  /\ last.op = "init"
  /\ DATA # Null
  /\ Len(DATA[1].shoes) = 4
  /\ state # Null
  /\ state[1].ratings = ("a" :> Num(0) @@ "b" :> Num(0) @@ "c" :> Num(0) @@ "d" :> Num(0))

\* The arguments of a call resolve no question, or no answer of the question.
UnresolvedCall(qidStr, aIndexStr) ==
  LET qid == NumberOf(qidStr)
      aIndex == NumberOf(aIndexStr)
      resolves == \E i \in 1..Len(DATA[1].questions) : DATA[1].questions[i].id = qid
  IN \/ ~resolves
     \/ aIndex.t # "number"
     \/ aIndex.n < 0
     \/ aIndex.n >= Len(questionsById[1][qid].answers)

\* C10: handleAnswerClick called with a question id that resolves no question,
\* or an answer index that is negative, too large or not a number, changes
\* neither the session nor the guard (nor the page, listeners and timers).
C10_UnresolvedCallNoChange ==
  [][ (last'.op = "call" /\ DATA # Null /\ UnresolvedCall(last'.qid, last'.aindex)) =>
        /\ state' = state
        /\ isTransitioning' = isTransitioning
        /\ visible' = visible
        /\ timers' = timers
        /\ stageListeners' = stageListeners
        /\ quizListeners' = quizListeners
        /\ ~last'.threw
    ]_vars

\* A call with an index one past the end, in the middle of a session.
C10_Witness ==
  /\ last.op = "call"
  /\ last.qid = Str("1") /\ last.aindex = Str("1")
  /\ ~last.accepted
  /\ state # Null /\ state[1].screen = "quiz"
  /\ picked # <<>>

C10_WitnessBadQuestion == last.op = "call" /\ last.qid = Str("abc") /\ picked # <<>> /\ ~last.accepted
C10_WitnessNotANumber == last.op = "call" /\ last.aindex = Str("abc") /\ picked # <<>> /\ ~last.accepted
C10_WitnessNegative == last.op = "call" /\ last.aindex = Str("-1") /\ picked # <<>> /\ ~last.accepted
\* The empty strings are question 0 and index 0 to Number(), so the call scores.
C10_WitnessEmptyStrings == last.op = "call" /\ last.qid = Str("") /\ last.aindex = Str("") /\ last.accepted

\* nextQuestion is no terminal marker and is the id of no question.
Dangling(next) ==
  /\ next \notin {Undefined, JSNull, Str("")}
  /\ NumberOf(next) \notin DOMAIN questionsById[1]

\* The last event was an accepted answer click whose nextQuestion dangles.
DanglingAccepted == AnswerAccepted /\ Dangling(ChosenAnswer.nextQuestion)

\* The last event rendered the question a dangling nextQuestion names.
DanglingRendered ==
  /\ "next" \in last.ran
  /\ picked # <<>>
  /\ Dangling(picked[Len(picked)].nextQuestion)

\* The placeholder is shown, nothing threw, and the render left the session
\* as it was.
C11_PlaceholderShown ==
  DanglingRendered =>
    /\ ~last.threw
    /\ questionText = NotFoundText
    /\ answers = <<>>
    /\ state = last.prior

\* C11: an accepted answer whose nextQuestion dangles leaves ratings and
\* currentQuestionId as they were before the answer, and the render that
\* follows shows the placeholder "Question not found." without throwing.
C11_DanglingHaltsUnchanged ==
  /\ DanglingAccepted =>
       /\ state[1].ratings = last.prior[1].ratings
       /\ state[1].currentQuestionId = last.prior[1].currentQuestionId
  /\ C11_PlaceholderShown

\* Reachability probe for C11: the placeholder after a dangling answer.
C11_WitnessPlaceholder == DanglingRendered /\ questionText = NotFoundText

\* The guard is set and nothing that would clear it is pending: no
\* transitionend listener and no timer.
Wedged ==
  /\ isTransitioning
  /\ stageListeners = <<>>
  /\ quizListeners = <<>>
  /\ timers = <<>>

\* C12: while DATA is null no event runs an update function (initialState,
\* showOnly, scoring, ranking) against the null dataset or the null state,
\* nothing throws, and the guard is not left set with nothing to clear it.
C12_NoOperationOnNullData ==
  DATA = Null =>
    /\ last.ran = {}
    /\ ~last.threw
    /\ ~Wedged

\* Reachability probes for C12: the update of a start click and of a home
\* click threw on the null dataset and left the guard set.
C12_WedgedByStart == DATA = Null /\ Wedged /\ last.threw /\ last.ran = {"startQuiz"}
C12_WedgedByHome == DATA = Null /\ Wedged /\ last.threw /\ last.ran = {"home"}

\* init() has finished for a malformed document or a failed fetch.
LoadError == booted /\ (DATA = Null \/ doc \in MalformedDocuments)

OnQuizScreen == state # Null /\ state[1].screen = "quiz"

\* C13: after the load of a malformed document, or a failed fetch, no event
\* sequence reaches a state whose screen is quiz.
C13_LoadErrorBlocksQuiz == LoadError => ~OnQuizScreen

\* C13 for a failed fetch alone, and for a document without shoes alone.
C13_FetchFailure == (booted /\ DATA = Null) => ~OnQuizScreen
C13_NoShoes == (booted /\ doc = DocNoShoes) => ~OnQuizScreen

\* Reachability probes for C13: the quiz screen after the load of a document
\* without questions, and of one with a question without id.
C13_QuizWithoutQuestions == doc = DocNoQuestions /\ OnQuizScreen /\ questionsById = Null /\ alerts
C13_QuizWithoutId == doc = DocNoId /\ OnQuizScreen /\ ~alerts
C13_StartAfterFetchFailure == booted /\ DATA = Null /\ last.ran = {"startQuiz"}

\* The update functions waiting for a fade-out to end.
PendingUpdates ==
  {i \in 1..Len(stageListeners) : stageListeners[i].fn = "onOutEnd"}
    \cup {-i : i \in {j \in 1..Len(quizListeners) : quizListeners[j].fn = "onFadeOutEnd"}}

\* An event that calls startQuiz, restartQuiz, goToStartScreen or (from the
\* timer of the second variant) transitionTo, and nothing before it.
CallsTransition(event) ==
  \/ event.op \in {"start", "restart", "home"}
  \/ event.op = "timer" /\ variant = 2

\* C14: while isTransitioning is true a call of startQuiz, restartQuiz,
\* goToStartScreen or transitionTo registers no listener, runs no update
\* function and changes neither state nor the guard; at most one update
\* function is pending at any time.
C14_NoSecondTransition ==
  /\ [](Cardinality(PendingUpdates) <= 1)
  /\ [][ (isTransitioning /\ CallsTransition(last')) =>
           /\ state' = state
           /\ isTransitioning'
           /\ stageListeners' = stageListeners
           /\ quizListeners' = quizListeners
           /\ visible' = visible
           /\ last'.ran = {}
       ]_vars

\* A second click on Start while the first one's transition is pending.
C14_Witness ==
  /\ last.op = "start"
  /\ last.busy
  /\ Cardinality(PendingUpdates) = 1
  /\ stageListeners = <<Listener("onOutEnd", Update("startQuiz", Undefined))>>

\* Reachability probes for C14: restart, home and the timer's transitionTo
\* while the guard is set.
C14_WitnessRestart == last.op = "restart" /\ last.busy /\ isTransitioning
C14_WitnessHome == last.op = "home" /\ last.busy /\ isTransitioning
C14_WitnessTimer == last.op = "timer" /\ last.busy /\ variant = 2 /\ isTransitioning

\* C14 for fadeQuizContentAndUpdate and transitionTo as handleAnswerClick
\* calls them, for a direct call while the guard is set: no listener is
\* registered, the guard and the screen stay, no update function runs.
C14_DirectCallWhileBusy ==
  [][ (isTransitioning /\ last'.op = "call") =>
        /\ isTransitioning'
        /\ stageListeners' = stageListeners
        /\ quizListeners' = quizListeners
        /\ visible' = visible
        /\ last'.ran = {}
        /\ (state # Null => state'[1].screen = state[1].screen
                            /\ state'[1].currentQuestionId = state[1].currentQuestionId)
    ]_vars

\* The answer the last direct call chose.
ChosenAnswerOfCall ==
  questionsById[1][NumberOf(last.qid)].answers[NumberOf(last.aindex).n + 1]

C14_WitnessDirectCall ==
  /\ last.op = "call" /\ last.busy /\ last.accepted
  /\ ChosenAnswerOfCall.nextQuestion = Num(1)

\* A transition has started and a completion signal of it is awaited.
TransitionPending ==
  /\ isTransitioning
  /\ stageListeners # <<>> \/ quizListeners # <<>>

UserEvent(event) == event.op \in {"answer", "start", "restart", "home", "tile"}

\* C15: the guard has no forced release.  While a started transition awaits
\* its transitionend, every step that is not a transitionend leaves the guard
\* set and the transition pending, and a user event (answer, start, restart,
\* home) changes nothing; so without the signal the input is ignored for ever.
C15_NoForcedRelease ==
  [][ (TransitionPending /\ last'.op \notin {"stageEnd", "quizEnd"}) =>
        /\ isTransitioning'
        /\ stageListeners' = stageListeners
        /\ quizListeners' = quizListeners
        /\ UserEvent(last') =>
             /\ state' = state
             /\ visible' = visible
             /\ timers' = timers
             /\ picked' = picked
             /\ last'.ran = {}
             /\ ~last'.accepted
    ]_vars

\* A home click during the fade between two questions, which is ignored.
C15_Witness ==
  /\ last.op = "home"
  /\ last.busy
  /\ TransitionPending
  /\ quizListeners # <<>>
  /\ picked # <<>>

\* Reachability probes for C15: answer, start and restart clicks, and a timer
\* of the second variant, while a transition is pending.
C15_WitnessAnswer == last.op = "answer" /\ last.busy /\ TransitionPending
C15_WitnessStart == last.op = "start" /\ last.busy /\ TransitionPending
C15_WitnessRestart == last.op = "restart" /\ last.busy /\ TransitionPending
C15_WitnessTimer == last.op = "timer" /\ last.busy /\ TransitionPending

\* The last event started a transition: it found the guard free and set it.
TransitionStarted == isTransitioning /\ ~last.busy

\* C16: when transitionend signals and timers are delivered, every started
\* transition eventually returns isTransitioning to false, and the guard,
\* once set, is eventually free again.
C16_GuardEventuallyReleased ==
  /\ TransitionStarted ~> ~isTransitioning
  /\ isTransitioning ~> ~isTransitioning

\* C16 for the transitions started with the dataset loaded and its session
\* created.
C16_LoadedGuardReleased == (TransitionStarted /\ state # Null) ~> ~isTransitioning

\* After a release user events are accepted again: an event that finds the
\* guard free and the start button shown starts a transition.
C16_AcceptedAfterRelease ==
  [][ (~isTransitioning /\ last'.op = "start") =>
        isTransitioning' /\ stageListeners' # <<>> ]_vars

\* ratings holds exactly the sums of the deltas of the answers in selected.
RatingsAreSumsOf(selected) ==
  \A id \in DOMAIN state[1].ratings \cup CatalogIds \cup SelectedKeys(selected) :
    RatingOrZero(state[1].ratings, id) = Num(SelectedSum(selected, id, 1))

\* The last event rendered a question after the fade-out of an answer.
NextRendered == "next" \in last.ran /\ ~last.threw

\* The handler run that accepts an answer has applied its delta to the ratings
\* it found and has rendered nothing.
C17_ScoredInHandler ==
  AnswerAccepted =>
    /\ \A id \in DOMAIN state[1].ratings :
         /\ state[1].ratings[id].t = "number"
         /\ state[1].ratings[id].n =
              RatingOrZero(last.prior[1].ratings, id).n + AnswerDelta(ChosenAnswer, id)
    /\ last.ran = {}
    /\ picked # <<>> /\ picked[Len(picked)] = ChosenAnswer

\* A question render is caused by the answer scored last, whose nextQuestion
\* it renders, and sees the ratings with that answer's delta.
C17_QuestionRenderSeesDelta ==
  NextRendered =>
    /\ picked # <<>>
    /\ ~IsTerminalMarker(picked[Len(picked)].nextQuestion)
    /\ RatingsAreSumsOf(picked)

\* A results render is caused by the terminal answer scored last and sees the
\* ratings with that answer's delta.
C17_ResultsRenderSeesDelta ==
  ResultsRendered =>
    /\ picked # <<>>
    /\ IsTerminalMarker(picked[Len(picked)].nextQuestion)
    /\ RatingsAreSumsOf(picked)

\* C17: for every accepted answer the score is applied first, in the handler
\* run that accepts it and before anything is rendered; the render of the next
\* question (after the fade-out) and the render of results (after the loading
\* wait) come later and see ratings that hold the delta of the answer that
\* caused them.
C17_ScoreBeforeRender ==
  /\ C17_ScoredInHandler
  /\ C17_QuestionRenderSeesDelta
  /\ C17_ResultsRenderSeesDelta

\* C17 for the first variant alone.
C17_Variant1 == variant = 1 => C17_ScoreBeforeRender

\* Reachability probes for C17: a question render and a results render after
\* two scored answers.
C17_WitnessQuestion == NextRendered /\ Len(picked) = 2 /\ answers # <<>>
C17_WitnessResults == ResultsRendered /\ Len(picked) = 2 /\ variant = 1

\* The quiz screen is shown with the answer buttons of a question and no
\* transition is running.
IdleOnQuestion ==
  /\ state # Null
  /\ state[1].screen = "quiz"
  /\ visible = {"quiz"}
  /\ ~isTransitioning
  /\ answers # <<>>

\* C18: once the question an accepted answer leads to has been rendered,
\* currentQuestionId is its id; in every idle state on the quiz screen
\* currentQuestionId is the id of the question whose answers are displayed.
C18_CurrentQuestionIsDisplayed ==
  /\ (NextRendered /\ answers # <<>>) =>
       state[1].currentQuestionId = NumberOf(picked[Len(picked)].nextQuestion)
  /\ IdleOnQuestion =>
       \A i \in 1..Len(answers) : answers[i].qid = StringOf(state[1].currentQuestionId)

\* C18 for the first variant alone.
C18_Variant1 == variant = 1 => C18_CurrentQuestionIsDisplayed

\* Reachability probes for C18: question 2 displayed, in each variant.
C18_WitnessVariant1 ==
  variant = 1 /\ IdleOnQuestion /\ answers[1].qid = "2" /\ state[1].currentQuestionId = Num(2)
C18_WitnessVariant2 ==
  variant = 2 /\ IdleOnQuestion /\ answers[1].qid = "2" /\ state[1].currentQuestionId = Num(0)

\* The ids looked up: those of the document's questions and some of none.
LookupIds ==
  {DATA[1].questions[i].id : i \in 1..Len(DATA[1].questions)}
    \cup {Num(0), Num(1), Num(7), Undefined, NaN}

\* The positions of the questions with the id.
PositionsOf(id) == {i \in 1..Len(DATA[1].questions) : DATA[1].questions[i].id = id}

\* C19: the map built at load gives, for an id, the question of that id that
\* is last in the document's list, a question with that very id, and null for
\* an id no question has.
C19_LastWriteWins ==
  questionsById # Null =>
    \A id \in LookupIds :
      LET found == getQuestion(questionsById[1], id)
          at == PositionsOf(id)
      IN IF at = {} THEN found = Null
         ELSE /\ found # Null
              /\ found[1].id = id
              /\ found[1] = DATA[1].questions[CHOOSE i \in at : \A j \in at : j <= i]

\* Two questions have the id 0; the quiz started with the later one.
C19_Witness ==
  /\ doc = DocDup
  /\ questionsById # Null
  /\ Cardinality(PositionsOf(Num(0))) = 2
  /\ "startQuiz" \in last.ran
  /\ questionText = "Q0 second"
  /\ Len(answers) = 2

\* Reachability probe for C19: a question without id is found under undefined.
C19_WitnessNoId == doc = DocNoId /\ questionsById # Null /\ Undefined \in DOMAIN questionsById[1]

\* The loaded document has no question with the id 0.
NoQuestionZero == questionsById # Null /\ Num(0) \notin DOMAIN questionsById[1]

\* C20: with no question 0 in the dataset, the update of startQuiz or
\* restartQuiz shows the quiz screen with the placeholder text and no answer
\* buttons; no other question is ever rendered in its place and no answer is
\* ever accepted.
C20_StartsAtQuestionZero ==
  NoQuestionZero =>
    /\ (last.ran \cap {"startQuiz", "restartQuiz"} # {}) =>
         /\ ~last.threw
         /\ state # Null /\ state[1].screen = "quiz"
         /\ state[1].currentQuestionId = Num(0)
         /\ questionText = NotFoundText
    /\ answers = <<>>
    /\ picked = <<>>
    /\ ~last.accepted

\* The quiz was started on a document whose questions have the ids 1 and 2.
C20_Witness ==
  /\ doc = DocNoZero
  /\ NoQuestionZero
  /\ "startQuiz" \in last.ran
  /\ visible = {"quiz"}
  /\ questionText = NotFoundText
  /\ answers = <<>>

\* With no question 0 the results screen, and with it the restart button, is
\* never shown.
C20_NoRestartWithoutZero == NoQuestionZero => "results" \notin visible

\* The ids of a ranking, in its order.
IdsOf(ranked) == [i \in 1..Len(ranked) |-> ranked[i].id]

\* C21: ranking and result rendering are read-only.  DATA is, in every state,
\* the document as loaded, with its shoes in their original order; the event
\* that renders results leaves every entry of ratings as it was; and ranking
\* the session again after the render gives the sequence that was displayed.
C21_RankingReadOnly ==
  /\ DATA # Null => DATA = Some(doc)
  /\ ResultsRendered =>
       /\ state[1].ratings = last.prior[1].ratings
       /\ LET again == rankedShoes(DATA[1], state[1].ratings)
              shown == recommendedSlot \o similarGrid
          IN \A i \in 1..Len(shown) : shown[i].shoeId = again[i].id

\* Results were rendered with a ranking that is not the catalog's order, and
\* the catalog is still in its order.
C21_Witness ==
  /\ ResultsRendered
  /\ doc = DocFour
  /\ IdsOf(rankedShoes(DATA[1], state[1].ratings)) = <<"c", "a", "b", "d">>
  /\ IdsOf(DATA[1].shoes) = <<"a", "b", "c", "d">>
  /\ recommendedSlot[1].shoeId = "c"

\* Reachability probe for C21: results rendered again after a restart that
\* followed a render, the guard of restartQuiz being free only on results.
C21_WitnessSecondRender ==
  /\ ResultsRendered
  /\ doc = DocFour
  /\ variant = 1
  /\ questionText = "Q2"

\* The screen a session records; "none" while there is no session.
ScreenOf(st) == IF st = Null THEN "none" ELSE st[1].screen

ScreenChanged == ScreenOf(last.prior) # ScreenOf(state)

\* The step that shows the loading screen for an accepted terminal answer:
\* in variant 1 the click itself, in variant 2 the update step of the
\* transition that the click started.
LoadingByTerminalAnswer ==
  \/ variant = 1 /\ TerminalAccepted
  \/ variant = 2 /\ last.op \in {"stageEnd", "quizEnd"} /\ "loading" \in last.ran

\* The screen flow, as one condition on the last event.
ScreenFlow ==
  ScreenChanged =>
    CASE ScreenOf(state) = "loading" ->
           ScreenOf(last.prior) = "quiz" /\ LoadingByTerminalAnswer
      [] ScreenOf(state) = "results" ->
           ScreenOf(last.prior) = "loading" /\ "results" \in last.ran
      [] ScreenOf(state) = "quiz" ->
           last.ran \cap {"startQuiz", "restartQuiz"} # {}
      [] ScreenOf(state) = "start" ->
           last.op = "init" \/ "home" \in last.ran
      [] OTHER -> FALSE

\* C22: screens follow Start -> Quiz -> Loading -> Results.  Every event that
\* changes state.screen changes it to loading from quiz by an accepted
\* terminal answer, to results from loading, to quiz by the update of start
\* or restart, or to start by the update of home navigation or by boot; in
\* both variants.
C22_ScreenFlow == ScreenFlow

\* C22 for variant 1 alone.
C22_Variant1 == variant = 1 => ScreenFlow

\* Each screen change of the flow happens in variant 1.
C22_WitnessLoading ==
  variant = 1 /\ ScreenChanged /\ ScreenOf(state) = "loading"
C22_WitnessResults ==
  variant = 1 /\ ScreenChanged /\ ScreenOf(state) = "results"
C22_WitnessRestart ==
  variant = 1 /\ ScreenOf(last.prior) = "results" /\ ScreenOf(state) = "quiz"
C22_WitnessHome ==
  variant = 1 /\ ScreenOf(last.prior) = "quiz" /\ ScreenOf(state) = "start"

\* C23: in variant 1, while state.screen is loading the guard is set and
\* exactly the one results timer is pending; an event that finds the loading
\* screen is the timer callback or changes nothing of the session, runs no
\* update and scores nothing; and no state has two timers pending.
C23_LoadingHoldsGuard ==
  variant = 1 =>
    /\ Len(timers) <= 1
    /\ ScreenOf(state) = "loading" =>
         isTransitioning /\ timers = <<ResultsTimer>>
    /\ ScreenOf(last.prior) = "loading" =>
         \/ last.op = "timer" /\ ScreenOf(state) = "results"
         \/ state = last.prior /\ last.ran = {} /\ ~last.accepted /\ last.busy

\* A home click during the loading wait of variant 1, after a scored answer,
\* left the session and the screen as they were.
C23_Witness ==
  /\ variant = 1
  /\ ScreenOf(last.prior) = "loading"
  /\ last.op = "home"
  /\ picked # <<>>
  /\ state = last.prior
  /\ isTransitioning
  /\ visible = {"loading"}
  /\ stageListeners = <<>>

\* The question id a button carries, as handleAnswerClick reads it.
ButtonQuestionId(b) == NumberOf(Str(b.qid))

\* C24: in variant 1 an accepted answer click found the guard free and the
\* screen quiz, its button's question id was state.currentQuestionId and
\* resolves to the question displayed, and its index to an answer of that
\* question; and every answer button that can be clicked (quiz shown) carries
\* state.currentQuestionId, so no button of an earlier question or session
\* is scored.
C24_AcceptedIsCurrent ==
  variant = 1 =>
    /\ AnswerAccepted =>
         /\ ~last.busy
         /\ ScreenOf(last.prior) = "quiz"
         /\ NumberOf(last.qid) = last.prior[1].currentQuestionId
         /\ getQuestion(questionsById[1], NumberOf(last.qid)) # Null
         /\ getQuestion(questionsById[1], NumberOf(last.qid))[1].copy = questionText
         /\ picked[Len(picked)] = ChosenAnswer
    /\ ("quiz" \in visible /\ state # Null) =>
         \A i \in 1..Len(answers) :
           ButtonQuestionId(answers[i]) = state[1].currentQuestionId

\* An answer of question 1 was accepted while question 1 was current.
C24_Witness ==
  /\ variant = 1
  /\ AnswerAccepted
  /\ NumberOf(last.qid) = Num(1)
  /\ last.prior[1].currentQuestionId = Num(1)
  /\ Len(picked) = 2

\* Reachability probes for C24: question 0 answered a second time in one
\* session (cycle of DocFour); and an answer accepted in a session started
\* after the results of an earlier one.
C24_WitnessRevisit ==
  /\ variant = 1
  /\ AnswerAccepted
  /\ Len(picked) = 3
  /\ NumberOf(last.qid) = Num(0)
C24_WitnessLaterSession ==
  /\ variant = 1
  /\ AnswerAccepted
  /\ recommendedSlot # <<>>
  /\ Len(picked) = 1

\* C24's formula without the restriction to variant 1 fails (see C18).
C24_BothVariants ==
  AnswerAccepted => NumberOf(last.qid) = last.prior[1].currentQuestionId

\* The question graph of a document: an edge from the question at position i
\* to the one at position j when an answer of i has a nextQuestion that is no
\* terminal marker and is the id of j.
QuestionEdge(d, i, j) ==
  \E k \in 1..Len(d.questions[i].answers) :
    LET next == d.questions[i].answers[k].nextQuestion
    IN ~IsTerminalMarker(next) /\ NumberOf(next) = d.questions[j].id

\* The positions reachable from position i in at least one edge.
RECURSIVE ReachFrom(_, _, _)
ReachFrom(d, seen, n) ==
  IF n = 0 THEN seen
  ELSE ReachFrom(d,
         seen \cup {j \in 1..Len(d.questions) :
                      \E i \in seen : QuestionEdge(d, i, j)},
         n - 1)

ReachableFrom(d, i) ==
  ReachFrom(d, {j \in 1..Len(d.questions) : QuestionEdge(d, i, j)}, Len(d.questions))

Acyclic(d) == \A i \in 1..Len(d.questions) : i \notin ReachableFrom(d, i)

NoDanglingReference(d) ==
  \A i \in 1..Len(d.questions) :
    \A k \in 1..Len(d.questions[i].answers) :
      LET next == d.questions[i].answers[k].nextQuestion
      IN IsTerminalMarker(next) \/
           \E j \in 1..Len(d.questions) : NumberOf(next) = d.questions[j].id

WellFormedGraph == Acyclic(doc) /\ NoDanglingReference(doc)

ResultsShown == ScreenOf(state) = "results" /\ visible = {"results"}

\* C25: with an acyclic question graph without dangling references, a
\* playthrough in which the user keeps answering and transition ends and
\* timers are delivered reaches the results screen from the quiz screen, and
\* a session never holds more accepted answers than there are questions.
C25_PlaythroughReachesResults ==
  /\ (OnQuizScreen /\ WellFormedGraph) ~> ResultsShown
  /\ [](WellFormedGraph => Len(picked) <= Len(doc.questions))

\* C25, the bound alone: a state property.
C25_AnswersBounded == WellFormedGraph => Len(picked) <= Len(doc.questions)

\* C25 for variant 1 alone.
C25_Variant1 ==
  (variant = 1 /\ OnQuizScreen /\ WellFormedGraph) ~> ResultsShown

\* C25 for variant 2, up to the loading screen.
C25_Variant2Finishes ==
  (variant = 2 /\ OnQuizScreen /\ WellFormedGraph) ~>
    ScreenOf(state) \in {"loading", "results"}

\* Results reached in variant 1 after as many accepted answers as the
\* document has questions.
C25_WitnessResults ==
  /\ variant = 1
  /\ doc = DocTwo
  /\ ResultsShown
  /\ Len(picked) = 2

\* With the cycle of DocCycle: two answers accepted, no results, and the page
\* is where it was after the start, question 0 displayed and all ratings 0.
C25_WitnessCycle ==
  /\ doc = DocCycle
  /\ ~WellFormedGraph
  /\ IdleOnQuestion
  /\ Len(picked) = 2
  /\ questionText = "Q0"
  /\ state = Some([initialState(doc) EXCEPT !.screen = "quiz"])
  /\ timers = <<>>
  /\ recommendedSlot = <<>>

\* With the cycle, more answers accepted in one session than the document has
\* questions.
C25_WitnessMoreThanQuestions ==
  /\ doc = DocCycle
  /\ Len(picked) > Len(doc.questions)
  /\ recommendedSlot = <<>>

====
